---- MODULE Spec2Model ----
(***************************************************************************)
(* Model of the agent orchestration core of VrindaDev:                     *)
(*   - streamChat   (src/src/core/ai_service.ts, lines 54-416):            *)
(*     provider queue, retry/failover loop, approval policy, tool loop;    *)
(*   - applySearchReplace (src/unnamed/part_001): exact / fuzzy patching;  *)
(*   - MCPManager (src/src/core/ai_service.ts, lines 725-909): the session *)
(*     to the file server and the tools of the catalog;                    *)
(*   - the chat:stream / chat:cancel handlers (src/unnamed/part_003);      *)
(*   - the streaming adapter of the earlier streamChat                     *)
(*     (src/unnamed/part_000): reading and parsing the event stream.       *)
(* Text is modelled as a sequence of one-character strings.                *)
(***************************************************************************)
EXTENDS Integers, Sequences, FiniteSets, TLC

VARIABLES
    \* ---- streamChat ----
    settings,         \* what readSettings() returned
    providerQueue,    \* Array<{id, model, key}>
    run,              \* the locals of one streamChat invocation (see InitialRun)
    \* ---- applySearchReplace: the call's arguments and its results ----
    fileContent, searchBlock, replaceBlock,
    patchResult,      \* value returned by applySearchReplace(fileContent, ...)
    secondResult,     \* value returned when the same patch is applied to patchResult
    patchPc,          \* "idle" | "ready" | "applied" | "reapplied"
    \* ---- MCPManager ----
    client,           \* this.client: 0 (null) or the number of the session it belongs to
    transport,        \* this.transport, likewise
    currentRoot,      \* this.currentRoot
    sessions,         \* the server processes: how many were spawned, which are open
    connectCall,      \* the call of connect in progress, or the last one
    disk,             \* the file system
    toolCall,         \* the last call of callTool: name, arguments, result, path touched
    ops,              \* number of callTool invocations so far
    callers,          \* the streamChat invocations that use mcpManager at the same time
    \* ---- chat:stream / chat:cancel handlers, for one chat ----
    activeStreams,    \* whose controller the map holds for the chat: "none" | "A" | "B"
    aborted,          \* abortController.signal.aborted of stream A
    handler,          \* the locals of stream A's handler and the events sent to the caller
    \* ---- the streaming adapter ----
    sse               \* the reader of the response body and what it has delivered

patchVars == <<fileContent, searchBlock, replaceBlock, patchResult, secondResult, patchPc>>

runVars == <<settings, providerQueue, run>>

toolVars == <<client, transport, currentRoot, sessions, connectCall, disk, toolCall, ops,
              callers>>

streamVars == <<activeStreams, aborted, handler>>

\* what the patcher and the streaming adapter work on
textVars == <<patchVars, sse>>

vars == <<settings, providerQueue, run, fileContent, searchBlock, replaceBlock,
          patchResult, secondResult, patchPc,
          client, transport, currentRoot, sessions, connectCall, disk, toolCall, ops,
          callers, activeStreams, aborted, handler, sse>>

(***************************************************************************)
(* Bounds of the patch inputs.                                             *)
(***************************************************************************)
MaxFileLen == 4
MaxSearchLen == 3

(***************************************************************************)
(* Bounds of the provider's behaviour in one run: tool calls per response, *)
(* and the number of turns on which the provider asks for tools.           *)
(***************************************************************************)
MaxCalls == 2
MaxToolTurns == 1

(***************************************************************************)
(* Text helpers (JavaScript String semantics).                             *)
(***************************************************************************)
Min2(a, b) == IF a <= b THEN a ELSE b

Max2(a, b) == IF a >= b THEN a ELSE b

Min3(a, b, c) == Min2(a, Min2(b, c))

\* characters String.prototype.trim / trimStart / \s treat as white space
IsWS(c) == c \in {" ", "\t", "\r", "\n"}

Strings(alphabet, n) == UNION {[1..k -> alphabet] : k \in 0..n}

RECURSIVE Concat(_)
Concat(seqs) == IF seqs = <<>> THEN <<>> ELSE Head(seqs) \o Concat(Tail(seqs))

\* Array.prototype.join
RECURSIVE Join(_, _)
Join(lines, sep) ==
    IF lines = <<>> THEN <<>>
    ELSE IF Len(lines) = 1 THEN lines[1]
    ELSE lines[1] \o sep \o Join(Tail(lines), sep)

\* the regular expression /\r?\n/ consumes one "\r" directly before the "\n"
StripCR(line) ==
    IF line # <<>> /\ line[Len(line)] = "\r" THEN SubSeq(line, 1, Len(line) - 1) ELSE line

RECURSIVE SplitFrom(_, _, _, _)
SplitFrom(s, i, cur, acc) ==
    IF i > Len(s) THEN Append(acc, cur)
    ELSE IF s[i] = "\n" THEN SplitFrom(s, i + 1, <<>>, Append(acc, StripCR(cur)))
    ELSE SplitFrom(s, i + 1, Append(cur, s[i]), acc)

\* String.prototype.split(/\r?\n/): always at least one line
SplitLines(s) == SplitFrom(s, 1, <<>>, <<>>)

\* String.prototype.trimStart
RECURSIVE TrimStart(_)
TrimStart(s) == IF s # <<>> /\ IsWS(s[1]) THEN TrimStart(Tail(s)) ELSE s

RECURSIVE TrimEnd(_)
TrimEnd(s) ==
    IF s # <<>> /\ IsWS(s[Len(s)]) THEN TrimEnd(SubSeq(s, 1, Len(s) - 1)) ELSE s

\* String.prototype.trim
Trim(s) == TrimEnd(TrimStart(s))

TrimAll(lines) == [k \in 1..Len(lines) |-> Trim(lines[k])]

\* matchedLine.match(/^\s*/)[0]
LeadingWS(s) == SubSeq(s, 1, Len(s) - Len(TrimStart(s)))

Occurs(s, t, i) == i + Len(t) - 1 <= Len(s) /\ SubSeq(s, i, i + Len(t) - 1) = t

\* String.prototype.includes
Includes(s, t) == \E i \in 1..(Len(s) + 1) : Occurs(s, t, i)

\* position (1-based) of the first occurrence, String.prototype.indexOf
IndexOf(s, t) == CHOOSE i \in 1..(Len(s) + 1) :
                    Occurs(s, t, i) /\ \A j \in 1..(i - 1) : ~Occurs(s, t, j)

(***************************************************************************)
(* GetSubstitution of String.prototype.replace with a string pattern: in   *)
(* the replacement text "$$" stands for "$", "$&" for the matched text,    *)
(* "$" + backquote for the text before the match, "$" + apostrophe for the text after it; with a  *)
(* string pattern there are no captures, so every other "$" is literal.    *)
(***************************************************************************)
\* the backquote and apostrophe characters (written out, as the lexer pairs them up)
Backquote == "backquote"

Apostrophe == "apostrophe"

RECURSIVE GetSubstitution(_, _, _, _)
GetSubstitution(matched, before, after, repl) ==
    IF repl = <<>> THEN <<>>
    ELSE IF repl[1] = "$" /\ Len(repl) >= 2 /\ repl[2] \in {"$", "&", Backquote, Apostrophe}
    THEN (CASE repl[2] = "$" -> <<"$">>
            [] repl[2] = "&" -> matched
            [] repl[2] = Backquote -> before
            [] repl[2] = Apostrophe -> after)
         \o GetSubstitution(matched, before, after, SubSeq(repl, 3, Len(repl)))
    ELSE <<repl[1]>> \o GetSubstitution(matched, before, after, Tail(repl))

\* fileStr.replace(searchStr, replaceStr) when searchStr occurs in fileStr
StringReplace(str, pattern, repl) ==
    LET p      == IndexOf(str, pattern)
        before == SubSeq(str, 1, p - 1)
        after  == SubSeq(str, p + Len(pattern), Len(str))
    IN  before \o GetSubstitution(pattern, before, after, repl) \o after

(***************************************************************************)
(* distance(a, b) of fastest-levenshtein: edit distance, row by row.  Each *)
(* row is bound as a value (element of a singleton set) before the next    *)
(* step uses it, which keeps the evaluation linear.                        *)
(***************************************************************************)
RECURSIVE LevRow(_, _, _, _, _)
LevRow(prev, ch, b, j, acc) ==
    IF j > Len(b) THEN acc
    ELSE CHOOSE r \in { LevRow(prev, ch, b, j + 1, nacc) :
                          nacc \in {Append(acc, Min3(prev[j + 1] + 1,
                                                     acc[j] + 1,
                                                     prev[j] + (IF ch = b[j] THEN 0 ELSE 1)))} } : TRUE

RECURSIVE LevRows(_, _, _, _)
LevRows(a, b, i, prev) ==
    IF i > Len(a) THEN prev[Len(b) + 1]
    ELSE CHOOSE d \in { LevRows(a, b, i + 1, row) :
                          row \in {LevRow(prev, a[i], b, 1, <<i>>)} } : TRUE

distance(a, b) == LevRows(a, b, 1, [j \in 1..(Len(b) + 1) |-> j - 1])

(***************************************************************************)
(* applySearchReplace (src/unnamed/part_001).                              *)
(* A similarity score 1 - dist/maxLen is kept as the exact fraction        *)
(* (maxLen - dist) / maxLen, so comparisons are done by cross              *)
(* multiplication.  The result record carries, besides the returned text,  *)
(* the path taken and the start of the replaced window (1-based).          *)
(***************************************************************************)
SIMILARITY_THRESHOLD == 85      \* const SIMILARITY_THRESHOLD = 0.85, in percent

FIRST_LINE_GATE == 50           \* (1 - firstLineDist / maxLen) < 0.5, in percent

EARLY_EXIT == 99                \* if (bestScore > 0.99) break, in percent

NoMatch == [kind |-> "none", text |-> <<>>, via |-> "none", index |-> 0]

Content(text, via, index) == [kind |-> "content", text |-> text, via |-> via, index |-> index]

Score(dist, maxLen) == [num |-> maxLen - dist, den |-> maxLen]

ScoreGT(a, b) == a.num * b.den > b.num * a.den

ScoreAbovePct(s, pct) == s.num * 100 > pct * s.den

ScoreAtLeastPct(s, pct) == s.num * 100 >= pct * s.den

ScoreBelowPct(s, pct) == s.num * 100 < pct * s.den

lineEndingOf(content) == IF Includes(content, <<"\r", "\n">>) THEN <<"\r", "\n">> ELSE <<"\n">>

\* fileLines.slice(i, i + n), with i 1-based
Window(fileLines, i, n) == SubSeq(fileLines, i, i + n - 1)

\* chunk.map(l => l.trim()).join("\n")
TrimmedBlock(lines) == Join(TrimAll(lines), <<"\n">>)

\* lines 48-54: the first line of the window is too different from the first search line
FirstLineSkip(fileLine, searchLine) ==
    LET f == Trim(fileLine)
        s == Trim(searchLine)
        maxLen == Max2(Len(f), Len(s))
    IN  /\ f # s
        /\ maxLen > 0
        /\ ScoreBelowPct(Score(distance(f, s), maxLen), FIRST_LINE_GATE)

\* lines 57-61: score of the window starting at i (den = 0 when both blocks are empty)
WindowScore(fileLines, searchLines, i) ==
    LET chunkTrimmed  == TrimmedBlock(Window(fileLines, i, Len(searchLines)))
        searchTrimmed == TrimmedBlock(searchLines)
    IN  Score(distance(chunkTrimmed, searchTrimmed), Max2(Len(chunkTrimmed), Len(searchTrimmed)))

\* lines 42-69: the sliding-window loop; best = [score, index], index 0 = none
RECURSIVE ScanWindows(_, _, _, _)
ScanWindows(fileLines, searchLines, i, best) ==
    IF i > Len(fileLines) - Len(searchLines) + 1 THEN best
    ELSE IF FirstLineSkip(fileLines[i], searchLines[1])
         THEN ScanWindows(fileLines, searchLines, i + 1, best)
    ELSE LET score == WindowScore(fileLines, searchLines, i)
         IN  IF score.den = 0 THEN ScanWindows(fileLines, searchLines, i + 1, best)
             ELSE LET new == IF ScoreGT(score, best.score)
                             THEN [score |-> score, index |-> i] ELSE best
                  IN  IF ScoreAbovePct(new.score, EARLY_EXIT) THEN new
                      ELSE ScanWindows(fileLines, searchLines, i + 1, new)

BestWindow(fileLines, searchLines) ==
    ScanWindows(fileLines, searchLines, 1, [score |-> [num |-> 0, den |-> 1], index |-> 0])

\* variant: the replacement lines are used as given
indentedReplaceLinesAsGiven(replaceLines, actualIndent) == replaceLines

\* variant: the file's indentation is put in front of the replacement line as given
indentedReplaceLinesKeepOwnIndent(replaceLines, actualIndent) ==
    [k \in 1..Len(replaceLines) |->
        IF Trim(replaceLines[k]) = <<>> THEN replaceLines[k]
        ELSE actualIndent \o replaceLines[k]]

\* lines 80-86: re-indent the replacement block
indentedReplaceLines(replaceLines, actualIndent) ==
    [k \in 1..Len(replaceLines) |->
        IF Trim(replaceLines[k]) = <<>> THEN replaceLines[k]
        ELSE actualIndent \o TrimStart(replaceLines[k])]

\* lines 88-92: splice and rejoin with the file's line ending
Splice(fileLines, searchLines, newLines, bestIndex, lineEnding) ==
    LET before == SubSeq(fileLines, 1, bestIndex - 1)
        after  == SubSeq(fileLines, bestIndex + Len(searchLines), Len(fileLines))
    IN  Join(before \o newLines, lineEnding) \o lineEnding \o Join(after, lineEnding)

\* lines 30-32: the exact path
ExactReplace(fileStr, searchStr, replaceStr) == StringReplace(fileStr, searchStr, replaceStr)

\* variant: the best scored window is accepted whatever its score
AcceptsAnyBest(best) == best.index # 0

\* variant: only a perfect score is accepted
AcceptsPerfectOnly(best) == ScoreAtLeastPct(best.score, 100) /\ best.index # 0

\* line 72: the acceptance test
Accepts(best) == ScoreAtLeastPct(best.score, SIMILARITY_THRESHOLD) /\ best.index # 0

applySearchReplace(file, search, replace) ==
    LET lineEnding   == lineEndingOf(file)
        fileLines    == SplitLines(file)
        searchLines  == SplitLines(search)
        replaceLines == SplitLines(replace)
        fileStr      == Join(fileLines, <<"\n">>)
        searchStr    == Join(searchLines, <<"\n">>)
        replaceStr   == Join(replaceLines, <<"\n">>)
    IN  IF Len(searchLines) = 0 THEN NoMatch
        ELSE IF Includes(fileStr, searchStr)
        THEN Content(ExactReplace(fileStr, searchStr, replaceStr), "exact", 0)
        ELSE LET best == BestWindow(fileLines, searchLines)
             IN  IF Accepts(best)
                 THEN Content(Splice(fileLines, searchLines,
                                     indentedReplaceLines(replaceLines,
                                                          LeadingWS(fileLines[best.index])),
                                     best.index, lineEnding),
                              "fuzzy", best.index)
                 ELSE NoMatch

(***************************************************************************)
(* Inputs of the patch specification: every text over a small alphabet up  *)
(* to the bounds, a fixed set of replacement texts, and named cases.       *)
(***************************************************************************)
FileAlphabet == {"a", " ", "\n"}

ReplaceTexts == {<<>>, <<"b">>, <<" ", "b">>, <<"b", "\n", "b">>, <<"$", "&">>, <<"$", "$">>,
                 <<"b", "$", Apostrophe>>, <<"$", Backquote, "b">>}

FooFile == <<"f", "u", "n", "c", "t", "i", "o", "n", " ", "f", "o", "o", "(", ")", " ", "{", "\n", " ", " ", "r", "e", "t", "u", "r", "n", " ", "1", ";", "\n", "}", "\n">>

Return1 == <<"r", "e", "t", "u", "r", "n", " ", "1", ";">>

Return2 == <<"r", "e", "t", "u", "r", "n", " ", "2", ";">>

NamedCases ==
    { <<FooFile, Return1, Return2>>,
      \* a later line one character away from the search text
      <<<<"r", "e", "t", "u", "r", "n", " ", "1", ";", "\n", "r", "e", "t", "u", "r", "n", " ", "3", ";">>, Return1, <<"x">>>>,
      \* CRLF file
      <<<<"a", "\r", "\n", "a", "\r", "\n">>, <<"a">>, <<"b">>>>,
      <<<<" ", " ", "b", "b", "\r", "\n", "b", "b">>, <<"b", "b", " ">>, <<"c", "\n", " ", "d">>>>,
      \* a white-space-only replacement line, then a line with its own indentation
      <<<<" ", "a">>, <<"a", " ">>, <<" ", "\n", "\t", "b">>>>,
      \* the first lines differ in their only character, the second lines are equal
      <<<<"x", "\n", "r", "e", "t", "u", "r", "n">>, <<"y", "\n", "r", "e", "t", "u", "r", "n">>, <<"z">>>> }

PatchInputs ==
    (Strings(FileAlphabet, MaxFileLen) \X Strings(FileAlphabet, MaxSearchLen) \X ReplaceTexts)
    \cup NamedCases

(***************************************************************************)
(* streamChat, part 1: settings and the provider queue (lines 60-100).     *)
(* API keys are texts, so that "blank" is decided by trim() as in the code.*)
(***************************************************************************)
PriorityChain == <<"openrouter", "google", "openai", "anthropic", "ollama">>

KnownProviders == {PriorityChain[k] : k \in 1..Len(PriorityChain)}

OllamaKey == <<"o", "l", "l", "a", "m", "a">>

\* the model each branch of the auto chain pushes (lines 87-91)
DefaultModel(p) ==
    CASE p = "openrouter" -> "google/gemini-2.0-flash-001"
      [] p = "google"     -> "gemini-1.5-pro-latest"
      [] p = "openai"     -> "gpt-4o"
      [] p = "anthropic"  -> "claude-3-5-sonnet-latest"
      [] p = "ollama"     -> "llama3"

\* a JavaScript string is truthy when it is not empty
Truthy(text) == text # <<>>

\* line 72: providerSettings[p].apiKey.value || apiKeys[p]; an id without settings has no key
getKey(s, p) ==
    IF p \notin DOMAIN s.providerKeys THEN <<>>
    ELSE IF Truthy(s.providerKeys[p].value) THEN s.providerKeys[p].value
    ELSE s.providerKeys[p].legacy

\* lines 63-64
isAgentMode(s) == s.selectedChatMode \in {"agent", "build"}

\* lines 76-84: manual selection, one candidate
ManualQueue(s) ==
    LET requestedProvider == s.selectedProvider
        key == IF requestedProvider = "ollama" THEN OllamaKey ELSE getKey(s, requestedProvider)
    IN  << [id |-> requestedProvider, model |-> s.selectedModelName, key |-> key] >>

\* lines 87-91: does the auto chain push provider p
AutoPushes(s, p) ==
    IF p = "ollama" THEN s.isOllamaEnabled \/ Truthy(getKey(s, "ollama"))
    ELSE Truthy(getKey(s, p))

AutoEntry(s, p) ==
    [id |-> p, model |-> DefaultModel(p), key |-> IF p = "ollama" THEN OllamaKey ELSE getKey(s, p)]

RECURSIVE AutoQueueFrom(_, _)
AutoQueueFrom(s, k) ==
    IF k > Len(PriorityChain) THEN <<>>
    ELSE (IF AutoPushes(s, PriorityChain[k]) THEN <<AutoEntry(s, PriorityChain[k])>> ELSE <<>>)
         \o AutoQueueFrom(s, k + 1)

AutoQueue(s) == AutoQueueFrom(s, 1)

\* variant: the filter keeps every non-empty key
ValidKeyNoTrim(entry) == Truthy(entry.key)

\* line 95: p.key && p.key.trim() !== ""
ValidKey(entry) == Truthy(entry.key) /\ Trim(entry.key) # <<>>

RECURSIVE FilterQueue(_)
FilterQueue(q) ==
    IF q = <<>> THEN <<>>
    ELSE (IF ValidKey(Head(q)) THEN <<Head(q)>> ELSE <<>>) \o FilterQueue(Tail(q))

\* lines 70-95
buildQueue(s) ==
    FilterQueue(IF s.selectedProvider # "auto" THEN ManualQueue(s) ELSE AutoQueue(s))

QueueIds(q) == [k \in 1..Len(q) |-> q[k].id]

(***************************************************************************)
(* streamChat, part 2: the locals of an invocation.                        *)
(*   pc          where the invocation is suspended:                        *)
(*               "settings" (await readSettings), "context" (lines         *)
(*               104-164), "fetch" (await fetch), "sleep" (await sleep),   *)
(*               "tool" (await mcpManager.callTool), "done" (ended)        *)
(*   outcome     "running", "returned" or "threw"                          *)
(*   emitted     the chunks passed to onChunk by the last step, in order   *)
(*   configErrors, fatalErrors   how often the two error chunks were sent  *)
(*   toolCalls   how often mcpManager.callTool was invoked                 *)
(*   lastResponse, rlStreak, streakStart   history of the provider's       *)
(*               answers: the last one, the number of consecutive rate     *)
(*               limits and the provider index when that streak began      *)
(* Indices are 1-based: currentProviderIndex = 1 is the code's index 0.    *)
(***************************************************************************)
MAX_ATTEMPTS == 10              \* while (!responseData && attempts < 10)

AGENT_MAX_TURNS == 50           \* (isAgentMode && autoApprove) ? 50 : 1

SLEEP_MS == 5000                \* await sleep(5000)

\* nullArgs: the position of a tool call whose arguments are the JSON text null
\* (JSON.parse succeeds and yields null), 0 when there is none
\* objectArgs: the position of a tool call whose arguments arrive as an object,
\* not as JSON text, and hold a path with a prefix that line 375 strips, 0 when
\* there is none
NoResponse ==
    [present |-> FALSE, content |-> FALSE, calls |-> <<>>, nullArgs |-> 0, objectArgs |-> 0]

Message(hasContent, calls) ==
    [present |-> TRUE, content |-> hasContent, calls |-> calls, nullArgs |-> 0,
     objectArgs |-> 0]

MessageNullArgs(hasContent, calls, k) == [Message(hasContent, calls) EXCEPT !.nullArgs = k]

NoAnswer == [status |-> 0, mentionsRateLimit |-> FALSE]

\* a conversation message: its role, the number of tool calls it carries, for a
\* tool message the position of the call it answers (tool_call_id), and whether
\* the arguments of its tool calls are as the provider sent them
Msg(role, toolCalls, id) ==
    [role |-> role, toolCalls |-> toolCalls, id |-> id, args |-> "asReceived"]

InitialRun ==
    [ pc |-> "settings", outcome |-> "running",
      turnCount |-> 0, attempts |-> 0, currentProviderIndex |-> 1,
      responseData |-> NoResponse, callIdx |-> 0, hasError |-> FALSE,
      messages |-> <<>>, emitted |-> <<>>, sleepMs |-> 0,
      configErrors |-> 0, fatalErrors |-> 0, toolCalls |-> 0,
      lastResponse |-> NoAnswer, rlStreak |-> 0, streakStart |-> 0 ]

\* onChunk(tag)
Emit(r, tag) == [r EXCEPT !.emitted = Append(@, tag)]

RECURSIVE EmitTimes(_, _, _)
EmitTimes(r, tag, n) == IF n = 0 THEN r ELSE EmitTimes(Emit(r, tag), tag, n - 1)

\* variant: the message is not kept
PushNothing(r, m) == r

\* messages.push(m)
Push(r, m) == [r EXCEPT !.messages = Append(@, m)]

\* variant: the turn cap follows auto-approve alone
MAX_TURNS_IgnoresMode(s) == IF s.autoApproveChanges THEN AGENT_MAX_TURNS ELSE 1

\* line 219
MAX_TURNS(s) == IF isAgentMode(s) /\ s.autoApproveChanges THEN AGENT_MAX_TURNS ELSE 1

\* streamChat returns (return, break out of the turn loop, or loop condition false)
Return(r) == [r EXCEPT !.pc = "done", !.outcome = "returned"]

\* variant: the error is reported but the function does not return
ReportNoKeysContinue(r) ==
    [Emit(r, "noValidKeys") EXCEPT !.configErrors = @ + 1, !.pc = "context"]

\* lines 97-100
ReportNoKeys(r) ==
    Return([Emit(r, "noValidKeys") EXCEPT !.configErrors = @ + 1])

\* lines 410-414: the catch of the turn loop
LoopFatal(r) ==
    Return([Emit(r, "fatalError") EXCEPT !.fatalErrors = @ + 1])

\* lines 236, 260, 276-278: the host the request of a candidate is sent to; every
\* id other than google, ollama and openrouter keeps the default baseUrl
requestHost(id) ==
    IF id = "google" THEN "generativelanguage.googleapis.com"
    ELSE IF id = "ollama" THEN "127.0.0.1:11434"
    ELSE IF id = "openrouter" THEN "openrouter.ai"
    ELSE "api.openai.com"

\* lines 232-290: one attempt, up to the await of fetch
SendRequest(r) == [r EXCEPT !.attempts = @ + 1, !.pc = "fetch"]

\* variant: the turn loop tests turnCount <= MAX_TURNS
BeginTurnOffByOne(s, r) ==
    IF r.turnCount <= MAX_TURNS(s)
    THEN SendRequest([r EXCEPT !.turnCount = @ + 1,
                               !.responseData = NoResponse,
                               !.attempts = 0])
    ELSE Return(r)

\* lines 222-231: the head of the turn loop, up to the first attempt of the turn
BeginTurn(s, r) ==
    IF r.turnCount < MAX_TURNS(s)
    THEN SendRequest([r EXCEPT !.turnCount = @ + 1,
                               !.responseData = NoResponse,
                               !.attempts = 0])
    ELSE Return(r)

\* variant: the policy is not consulted after the tools
AfterToolsIgnoresPolicy(s, r) == BeginTurn(s, r)

\* line 406, then back to the head of the turn loop
AfterTools(s, r) ==
    IF r.hasError /\ ~s.enableAutoFixProblems THEN Return(r) ELSE BeginTurn(s, r)

\* lines 370-386: the next call of the response, up to the await of callTool;
\* fnArgs.path on null arguments (line 375) throws into the catch of the turn loop;
\* arguments that are an object are used as fnArgs themselves (line 373), so the
\* assignment to fnArgs.path of line 375 writes into the assistant message that
\* line 367 pushed, which lies callIdx tool messages before the end
NextCall(s, r) ==
    IF r.callIdx < Len(r.responseData.calls)
    THEN IF r.responseData.nullArgs = r.callIdx + 1
         THEN LoopFatal(r)
         ELSE LET r1 == IF r.responseData.objectArgs = r.callIdx + 1
                        THEN [r EXCEPT !.messages[Len(r.messages) - r.callIdx].args =
                                          "stripped"]
                        ELSE r
              IN  [Emit(r1, "toolStarted") EXCEPT !.callIdx = @ + 1,
                                                  !.toolCalls = @ + 1,
                                                  !.pc = "tool"]
    ELSE AfterTools(s, r)

MutatingTools == {"write_file", "edit_file", "execute_command", "create_directory"}

\* variant: only the first call of the response is inspected
isWriteFirstOnly(calls) == Len(calls) > 0 /\ calls[1] \in MutatingTools

\* line 337
isWrite(calls) == \E k \in 1..Len(calls) : calls[k] \in MutatingTools

\* lines 336-365: manual approval; TRUE when the response is turned into proposals
Intercepts(s, calls) == ~s.autoApproveChanges /\ isWrite(calls)

\* variant: a response without tool calls goes back to the head of the turn loop
InterpretLoopsBack(s, r) ==
    LET resp == r.responseData
        r1   == IF resp.content
                THEN Push(Emit(r, "content"), Msg("assistant", 0, 0))
                ELSE r
    IN  IF Len(resp.calls) > 0
        THEN IF Intercepts(s, resp.calls)
             THEN IF resp.nullArgs = 0
                  THEN Return(EmitTimes(r1, "proposal", Len(resp.calls)))
                  ELSE LoopFatal(EmitTimes(r1, "proposal", resp.nullArgs - 1))
             ELSE NextCall(s, [Push(r1, Msg("assistant", Len(resp.calls), 0))
                                 EXCEPT !.hasError = FALSE, !.callIdx = 0])
        ELSE BeginTurn(s, r1)

\* lines 328-408: a response has arrived
Interpret(s, r) ==
    LET resp == r.responseData
        r1   == IF resp.content
                THEN Push(Emit(r, "content"), Msg("assistant", 0, 0))
                ELSE r
    IN  IF Len(resp.calls) > 0
        THEN IF Intercepts(s, resp.calls)
             THEN IF resp.nullArgs = 0
                  THEN Return(EmitTimes(r1, "proposal", Len(resp.calls)))
                  \* line 348: fnArgs.path on null arguments throws
                  ELSE LoopFatal(EmitTimes(r1, "proposal", resp.nullArgs - 1))
             ELSE NextCall(s, [Push(r1, Msg("assistant", Len(resp.calls), 0))
                                 EXCEPT !.hasError = FALSE, !.callIdx = 0])
        ELSE Return(r1)

\* variant: the attempt loop tests attempts <= 10
RetryLoopOffByOne(s, r) ==
    IF ~r.responseData.present /\ r.attempts <= MAX_ATTEMPTS THEN SendRequest(r)
    ELSE IF ~r.responseData.present THEN Return(r)
    ELSE Interpret(s, r)

\* lines 231 and 326: the condition of the attempt loop and what follows it
RetryLoop(s, r) ==
    IF ~r.responseData.present /\ r.attempts < MAX_ATTEMPTS THEN SendRequest(r)
    ELSE IF ~r.responseData.present THEN Return(r)
    ELSE Interpret(s, r)

\* variant: the cursor stops at the last candidate instead of wrapping
NextProviderIndexNoWrap(i, n) == IF i < n THEN i + 1 ELSE i

\* lines 303, 305: the provider cursor moves to the next candidate, wrapping
NextProviderIndex(i, n) == (i % n) + 1

\* lines 300-311
OnRateLimit(s, q, r) ==
    LET r1 == Emit(r, "overloaded")
    IN  IF Len(q) > 1
        THEN RetryLoop(s, Emit([r1 EXCEPT !.currentProviderIndex = NextProviderIndex(@, Len(q))],
                               "switching"))
        ELSE [Emit(r1, "waiting") EXCEPT !.pc = "sleep", !.sleepMs = SLEEP_MS]

\* variant: with a single candidate the error is swallowed and the run just ends
OnProviderErrorSwallowed(s, q, r) ==
    IF Len(q) > 1
    THEN RetryLoop(s, Emit([r EXCEPT !.currentProviderIndex = NextProviderIndex(@, Len(q))],
                           "errorSwitching"))
    ELSE Return(r)

\* lines 312-322
OnProviderError(s, q, r) ==
    IF Len(q) > 1
    THEN RetryLoop(s, Emit([r EXCEPT !.currentProviderIndex = NextProviderIndex(@, Len(q))],
                           "errorSwitching"))
    ELSE LoopFatal(r)

RATE_LIMIT_STATUS == {429, 503}

\* lines 263-264, 292-293: the text of the error the adapter throws mentions one of
\* "RateLimit", "429", "503", "Overloaded" (line 298)
isRateLimit(answer) == answer.status \in RATE_LIMIT_STATUS \/ answer.mentionsRateLimit

\* lines 388-403: the result of callTool is turned into a tool message
ToolFinished(r, outcome) ==
    LET failed == outcome \in {"error", "throw"}
        r1 == [r EXCEPT !.hasError = @ \/ failed]
        r2 == IF outcome = "throw" THEN Emit(r1, "toolFailed")
              ELSE IF r1.hasError THEN Emit(r1, "toolFailed")
              ELSE Emit(r1, "toolDone")
    IN  Push(r2, Msg("tool", 0, r.callIdx))

(***************************************************************************)
(* The environment of a run: what the settings hold, what a provider       *)
(* answers and what a tool call returns.                                   *)
(***************************************************************************)
KeyPair(value, legacy) == [value |-> value, legacy |-> legacy]

NoKeys == [p \in KnownProviders |-> KeyPair(<<>>, <<>>)]

\* structured key values and legacy (flat) key values tried for each provider
StructuredKeys == {<<>>, <<" ">>, <<"s">>}

LegacyKeys == {<<>>, <<"l">>}

ChatModes == {"ask", "agent", "build"}

Policies ==
    [selectedChatMode : ChatModes, autoApproveChanges : BOOLEAN, enableAutoFixProblems : BOOLEAN]

Credentials(selectedProvider, providerKeys, isOllamaEnabled) ==
    [selectedProvider |-> selectedProvider, providerKeys |-> providerKeys,
     isOllamaEnabled |-> isOllamaEnabled]

\* the credential profiles of the runs: empty, one, two and three candidates
RunCredentials ==
    { Credentials("auto", NoKeys, FALSE),
      Credentials("auto", [NoKeys EXCEPT !["openai"] = KeyPair(<<" ">>, <<"l">>)], FALSE),
      Credentials("auto", [NoKeys EXCEPT !["openrouter"] = KeyPair(<<>>, <<"l">>),
                                         !["google"] = KeyPair(<<"s">>, <<>>)], FALSE),
      Credentials("auto", [NoKeys EXCEPT !["google"] = KeyPair(<<"s">>, <<>>),
                                         !["anthropic"] = KeyPair(<<"s">>, <<"l">>)], TRUE),
      Credentials("openai", NoKeys, FALSE),
      Credentials("openai", [NoKeys EXCEPT !["openai"] = KeyPair(<<"s">>, <<>>)], FALSE) }

\* every assignment of keys to the known providers, for the router
AllCredentials ==
    { Credentials(sp, keys, oe) :
        sp \in {"auto"},
        keys \in [KnownProviders -> {KeyPair(v, l) : v \in StructuredKeys, l \in LegacyKeys}],
        oe \in BOOLEAN }
    \cup
    { Credentials(sp, [NoKeys EXCEPT ![p] = KeyPair(v, l)], oe) :
        sp \in KnownProviders \cup {"custom"}, p \in KnownProviders,
        v \in StructuredKeys, l \in LegacyKeys, oe \in BOOLEAN }

SettingsOf(policy, cred) ==
    [ selectedChatMode |-> policy.selectedChatMode,
      autoApproveChanges |-> policy.autoApproveChanges,
      enableAutoFixProblems |-> policy.enableAutoFixProblems,
      selectedProvider |-> cred.selectedProvider,
      selectedModelName |-> "gpt-4o",
      providerKeys |-> cred.providerKeys,
      isOllamaEnabled |-> cred.isOllamaEnabled ]

\* tool names a provider may ask for: the four mutating tools and a read-only one
ProviderToolNames == MutatingTools \cup {"read_file"}

\* the tool_calls of a response: none, any single tool, or up to MaxCalls calls
\* that mix a mutating and a read-only tool in any order
ProviderCalls ==
    Strings(ProviderToolNames, 1) \cup Strings({"write_file", "read_file"}, MaxCalls)

\* responses whose last tool call carries null arguments
NullArgsCalls == {<<"write_file">>, <<"read_file", "write_file">>}

ProviderMessages ==
    {Message(c, calls) : c \in BOOLEAN, calls \in ProviderCalls}
    \cup {MessageNullArgs(FALSE, calls, Len(calls)) : calls \in NullArgsCalls}
    \cup {[Message(FALSE, <<"read_file", "read_file">>) EXCEPT !.objectArgs = 2]}

\* a failed HTTP exchange: the status, and whether the error text happens to
\* contain "429", "503" or "Overloaded"
Failures ==
    {[status |-> st, mentionsRateLimit |-> FALSE] : st \in RATE_LIMIT_STATUS}
    \cup {[status |-> 500, mentionsRateLimit |-> m] : m \in BOOLEAN}

ToolOutcomes == {"content", "error", "plain", "throw"}

\* histories loaded from the database (lines 139-148), oldest first
MaxHistory == 1

Histories ==
    {[k \in 1..n |-> Msg(IF k % 2 = 1 THEN "user" ELSE "assistant", 0, 0)] : n \in 0..MaxHistory}

(***************************************************************************)
(* The steps of streamChat, each from one await to the next.               *)
(***************************************************************************)
StepStart(r) == [r EXCEPT !.emitted = <<>>, !.sleepMs = 0]

\* the answer is recorded in the history fields
Recorded(r, answer) ==
    IF isRateLimit(answer)
    THEN [r EXCEPT !.lastResponse = answer,
                   !.rlStreak = @ + 1,
                   !.streakStart = IF r.rlStreak = 0 THEN r.currentProviderIndex ELSE @]
    ELSE [r EXCEPT !.lastResponse = answer, !.rlStreak = 0, !.streakStart = 0]

\* lines 60-100: readSettings has returned
BuildProviderQueue ==
    /\ run.pc = "settings"
    /\ providerQueue' = buildQueue(settings)
    /\ run' = IF Len(providerQueue') = 0
              THEN ReportNoKeys(StepStart(run))
              ELSE [StepStart(run) EXCEPT !.pc = "context"]
    /\ UNCHANGED settings

\* lines 104-231: context, history and tools are loaded, the loop starts
LoadContext ==
    /\ run.pc = "context"
    /\ \E history \in Histories :
          run' = BeginTurn(settings,
                           [StepStart(run) EXCEPT
                              !.messages = <<Msg("system", 0, 0)>> \o history
                                           \o <<Msg("user", 0, 0)>>])
    /\ UNCHANGED <<settings, providerQueue>>

\* lines 266-274, 294-295: the exchange succeeded and carries one of the messages
\* the provider has on offer
Receive(offered) ==
    /\ run.pc = "fetch"
    /\ \E m \in offered :
          run' = RetryLoop(settings,
                           [Recorded(StepStart(run), [status |-> 200, mentionsRateLimit |-> FALSE])
                              EXCEPT !.responseData = m])
    /\ UNCHANGED <<settings, providerQueue>>

\* a provider that asks for tools in the first MaxToolTurns turns; line 271: the
\* Google adapter always passes the arguments as JSON text, the other providers
\* send object arguments in the first turn only
ReceiveMessage ==
    Receive({m \in ProviderMessages :
                /\ Len(m.calls) > 0 => run.turnCount <= MaxToolTurns
                /\ m.objectArgs > 0 => /\ providerQueue[run.currentProviderIndex].id # "google"
                                       /\ run.turnCount = 1})

\* a provider that may ask for one read-only tool in every turn
ReceiveInAnyTurn == Receive({Message(TRUE, <<>>), Message(FALSE, <<"read_file">>)})

\* the exchange succeeded but carries no candidate / no choices[0].message
ReceiveEmpty ==
    /\ run.pc = "fetch"
    /\ run' = RetryLoop(settings,
                        Recorded(StepStart(run), [status |-> 200, mentionsRateLimit |-> FALSE]))
    /\ UNCHANGED <<settings, providerQueue>>

\* lines 263-264, 292-293, 297-323: the adapter throws, the catch decides
ReceiveFailure ==
    /\ run.pc = "fetch"
    /\ \E answer \in Failures :
          run' = IF isRateLimit(answer)
                 THEN OnRateLimit(settings, providerQueue, Recorded(StepStart(run), answer))
                 ELSE OnProviderError(settings, providerQueue, Recorded(StepStart(run), answer))
    /\ UNCHANGED <<settings, providerQueue>>

\* line 310: the sleep is over
SleepDone ==
    /\ run.pc = "sleep"
    /\ run' = RetryLoop(settings, StepStart(run))
    /\ UNCHANGED <<settings, providerQueue>>

\* lines 386-404: callTool has returned or thrown
ToolReturns ==
    /\ run.pc = "tool"
    /\ \E outcome \in ToolOutcomes :
          run' = NextCall(settings, ToolFinished(StepStart(run), outcome))
    /\ UNCHANGED <<settings, providerQueue>>

\* a step of a run on its own: nothing else changes
Alone(step) == step /\ UNCHANGED <<textVars, toolVars, streamVars>>

PatchIdle ==
    /\ fileContent = <<>>
    /\ searchBlock = <<>>
    /\ replaceBlock = <<>>
    /\ patchResult = NoMatch
    /\ secondResult = NoMatch
    /\ patchPc = "idle"

(***************************************************************************)
(* The streaming adapter (src/unnamed/part_000): the body of the response  *)
(* is read piece by piece, decoded, cut into lines and parsed.  A byte is  *)
(* a one-character string; "E1" and "E2" are the two bytes of one          *)
(* character.  In a line, "d" followed by a space stands for the prefix    *)
(* "data: ", "!" for the text [DONE], and "{", a letter, "}" for a JSON    *)
(* object whose choices[0].delta.content is that letter.                   *)
(***************************************************************************)
MaxLines == 2
MaxReads == 3

\* TextDecoder.decode(value, {stream: true}): a character whose bytes are not
\* all there yet is held back for the next call
RECURSIVE Utf8(_)
Utf8(bytes) ==
    IF bytes = <<>> THEN <<>>
    ELSE IF Len(bytes) >= 2 /\ bytes[1] = "E1" /\ bytes[2] = "E2"
         THEN <<"e">> \o Utf8(SubSeq(bytes, 3, Len(bytes)))
         ELSE <<bytes[1]>> \o Utf8(Tail(bytes))

decode(pending, value) ==
    LET bytes == pending \o value
        held  == IF bytes # <<>> /\ bytes[Len(bytes)] = "E1" THEN <<"E1">> ELSE <<>>
    IN  [text |-> Utf8(SubSeq(bytes, 1, Len(bytes) - Len(held))), pending |-> held]

\* String.prototype.split("\n"): always at least one piece
RECURSIVE SplitNewline(_)
SplitNewline(s) ==
    IF ~Includes(s, <<"\n">>) THEN <<s>>
    ELSE LET i == IndexOf(s, <<"\n">>)
         IN  <<SubSeq(s, 1, i - 1)>> \o SplitNewline(SubSeq(s, i + 1, Len(s)))

DataPrefix == <<"d", " ">>

DoneLine == <<"d", " ", "!">>

\* lines 91-99 (and 350-356): the fragments one line delivers: the content of a
\* data line whose payload parses and holds a non-empty content
lineChunks(line) ==
    LET trimmed == Trim(line)
        payload == SubSeq(trimmed, Len(DataPrefix) + 1, Len(trimmed))
    IN  IF trimmed = <<>> \/ trimmed = DoneLine THEN <<>>
        ELSE IF ~Occurs(trimmed, DataPrefix, 1) THEN <<>>
        ELSE IF Len(payload) = 3 /\ payload[1] = "{" /\ payload[3] = "}"
                  /\ payload[2] \in {"a", "e"}
             THEN <<payload[2]>>
             ELSE <<>>

RECURSIVE linesChunks(_)
linesChunks(lines) ==
    IF lines = <<>> THEN <<>> ELSE lineChunks(Head(lines)) \o linesChunks(Tail(lines))

\* lines 86-100: the text read is added to the buffer, the last piece of the
\* split is kept as the new buffer and the pieces before it are parsed
bufferedRead(buffer, text) ==
    LET lines == SplitNewline(buffer \o text)
    IN  [buffer |-> lines[Len(lines)],
         chunks |-> linesChunks(SubSeq(lines, 1, Len(lines) - 1))]

\* lines 346-358: every piece of the text read is parsed, nothing is kept
unbufferedRead(text) == linesChunks(SplitNewline(text))

\* the lines a provider sends, and the streams made of them: each line ends with
\* a line feed, except, in some streams, the last one
SseLines ==
    {DataPrefix \o <<"{", "a", "}">>, DataPrefix \o <<"{", "E1", "E2", "}">>, DoneLine, <<>>}

SseStreams ==
    {Join(lines, <<"\n">>) \o tail :
        lines \in UNION {[1..n -> SseLines] : n \in 1..MaxLines}, tail \in {<<>>, <<"\n">>}}
    \ {<<>>}

\* the ways the network cuts a stream into at most MaxReads non-empty reads
RECURSIVE CutSets(_, _)
CutSets(n, k) ==
    IF k = 0 THEN {{}}
    ELSE LET fewer == CutSets(n, k - 1)
         IN  fewer \cup {c \cup {i} : c \in fewer, i \in 1..(n - 1)}

RECURSIVE CutAt(_, _)
CutAt(s, cuts) ==
    IF cuts = {} THEN <<s>>
    ELSE LET i == CHOOSE j \in cuts : \A k \in cuts : j <= k
         IN  <<SubSeq(s, 1, i)>> \o CutAt(SubSeq(s, i + 1, Len(s)), {k - i : k \in cuts \ {i}})

NoReader ==
    [pc |-> "idle", stream |-> <<>>, reads |-> <<>>, pending |-> <<>>, buffer |-> <<>>,
     delivered |-> <<>>, deliveredUnbuffered |-> <<>>]

SseIdle == sse = NoReader

(***************************************************************************)
(* The chat:stream and chat:cancel handlers (src/unnamed/part_003) for one *)
(* chat: stream A is the request whose run is modelled; B is another       *)
(* chat:stream request for the same chat, of which only the registration   *)
(* of its controller is visible here.                                      *)
(***************************************************************************)
MaxCancels == 2     \* chat:cancel requests in one exploration

\* appended: what the last step added to fullResponseAccumulator;
\* chunkEvents: the chat:response:chunk events the last step sent
NoHandler ==
    [pc |-> "idle", appended |-> <<>>, chunkEvents |-> 0,
     endEvents |-> 0, errorEvents |-> 0, cancels |-> 0]

\* a step that sends no chunk and leaves fullResponseAccumulator alone
Quiet(h) == [h EXCEPT !.appended = <<>>, !.chunkEvents = 0]

StreamIdle ==
    /\ activeStreams = "none"
    /\ aborted = FALSE
    /\ handler = NoHandler

RunIdle ==
    /\ settings = SettingsOf([selectedChatMode |-> "ask", autoApproveChanges |-> FALSE,
                              enableAutoFixProblems |-> TRUE],
                             Credentials("auto", NoKeys, FALSE))
    /\ providerQueue = <<>>
    /\ run = [InitialRun EXCEPT !.pc = "idle"]

(***************************************************************************)
(* MCPManager (src/src/core/ai_service.ts, lines 725-909): the session to  *)
(* the external file server and the tools of the catalog.                  *)
(* An absolute path is the sequence of its segments (<<>> is the file      *)
(* system root); a path argument is a sequence of tokens, "/" being the    *)
(* separator.                                                              *)
(***************************************************************************)
MaxOps == 2         \* callTool invocations in one exploration
MaxSessions == 2    \* transports created in one exploration

SEARCH_LIMIT == 50

NoClient == 0                 \* this.client === null
NoRoot == <<"">>              \* this.currentRoot === ""

\* resolution of "." and ".." segments, from left to right
RECURSIVE Resolve(_, _)
Resolve(base, segs) ==
    IF segs = <<>> THEN base
    ELSE Resolve(CASE Head(segs) = "."  -> base
                   [] Head(segs) = ".." -> IF base = <<>> THEN <<>>
                                           ELSE SubSeq(base, 1, Len(base) - 1)
                   [] OTHER -> Append(base, Head(segs)),
                 Tail(segs))

\* path.normalize of an absolute path given by its segments
normalize(rootPath) == Resolve(<<>>, rootPath)

\* the segments of a path string
Segments(p) == SelectSeq(p, LAMBDA t : t # "/")

\* p.replace(/^[\\\/]/, '')
StripLeadingSeparator(p) == IF p # <<>> /\ Head(p) = "/" THEN Tail(p) ELSE p

\* path.join(root, p): concatenation, then normalisation
join(root, p) == Resolve(root, Segments(p))

\* line 804
getFullPath(root, p) == join(root, StripLeadingSeparator(p))

\* path.dirname
dirname(fullPath) == IF fullPath = <<>> THEN <<>> ELSE SubSeq(fullPath, 1, Len(fullPath) - 1)

IsUnder(root, fullPath) ==
    /\ Len(fullPath) >= Len(root)
    /\ SubSeq(fullPath, 1, Len(root)) = root

\* ---- node:fs on a disk [files : path -> text, dirs : set of paths] ----
Prefixes(fullPath) == {SubSeq(fullPath, 1, k) : k \in 0..Len(fullPath)}

existsSync(d, fullPath) == fullPath \in DOMAIN d.files \/ fullPath \in d.dirs

\* fs.mkdirSync(p, {recursive: true}) throws when a file is in the way
mkdirFails(d, fullPath) == Prefixes(fullPath) \cap DOMAIN d.files # {}

mkdirSync(d, fullPath) == [d EXCEPT !.dirs = @ \cup Prefixes(fullPath)]

\* fs.readFileSync throws on a directory and on a missing file
readFails(d, fullPath) == fullPath \notin DOMAIN d.files

\* fs.writeFileSync throws on a directory and when the parent is missing
writeFails(d, fullPath) == fullPath \in d.dirs \/ dirname(fullPath) \notin d.dirs

writeFileSync(d, fullPath, text) ==
    [d EXCEPT !.files = [p \in DOMAIN @ \cup {fullPath} |->
                            IF p = fullPath THEN text ELSE @[p]]]

\* fs.readdirSync: the names directly under a directory
readdirSync(d, fullPath) ==
    {p[Len(p)] : p \in {q \in DOMAIN d.files \cup d.dirs : q # <<>> /\ dirname(q) = fullPath}}

\* ---- tool results ----
Success == [kind |-> "success", message |-> "Successfully wrote", text |-> <<>>, paths |-> <<>>]

Failure(message) == [kind |-> "error", message |-> message, text |-> <<>>, paths |-> <<>>]

TextResult(message, text) == [kind |-> "content", message |-> message, text |-> text, paths |-> <<>>]

Thrown(message) == [kind |-> "thrown", message |-> message, text |-> <<>>, paths |-> <<>>]

NoResult == [kind |-> "none", message |-> "", text |-> <<>>, paths |-> <<>>]

Outcome(result, d, touched) == [result |-> result, disk |-> d, touched |-> touched]

\* variant: a patch is never rejected
FinalContentAlwaysWritten(final) == FALSE

\* line 819: if (!finalContent), true of null and of the empty string
FinalContentRejected(final) == final.kind = "none" \/ final.text = <<>>

\* lines 816-819: the edit_file branch, after the directory check
editFile(d, fullPath, args) ==
    IF ~existsSync(d, fullPath) THEN Outcome(Failure("File not found"), d, fullPath)
    ELSE IF readFails(d, fullPath) THEN Outcome(Failure("EISDIR"), d, fullPath)
    ELSE LET finalContent == applySearchReplace(d.files[fullPath], args.search, args.replace)
         IN  IF FinalContentRejected(finalContent)
             THEN Outcome(Failure("Search block not found"), d, fullPath)
             ELSE IF writeFails(d, fullPath) THEN Outcome(Failure("EISDIR"), d, fullPath)
             ELSE Outcome(Success, writeFileSync(d, fullPath, finalContent.text), fullPath)

\* lines 807-833
writeOrEdit(d, root, name, args) ==
    LET fullPath == getFullPath(root, args.path)
        dir == dirname(fullPath)
    IN  IF ~existsSync(d, dir) /\ mkdirFails(d, dir)
        THEN Outcome(Failure("ENOTDIR"), d, fullPath)
        ELSE LET d1 == IF existsSync(d, dir) THEN d ELSE mkdirSync(d, dir)
             IN  IF name = "edit_file" THEN editFile(d1, fullPath, args)
                 ELSE IF writeFails(d1, fullPath) THEN Outcome(Failure("EISDIR"), d1, fullPath)
                 ELSE Outcome(Success, writeFileSync(d1, fullPath, args.content), fullPath)

\* variant: the whole glob result is returned
limitedFilesUnbounded(files) == files

\* line 849: files.slice(0, 50)
limitedFiles(files) == SubSeq(files, 1, Min2(Len(files), SEARCH_LIMIT))

\* lines 836-854; the glob is the environment's: it throws or yields args.matches files
searchFiles(d, args) ==
    IF args.globThrows THEN Outcome(Failure("Search Error"), d, <<>>)
    ELSE LET files == [i \in 1..args.matches |-> i]
         IN  IF Len(files) = 0
             THEN Outcome(TextResult("No files found matching that pattern.", <<>>), d, <<>>)
             ELSE Outcome([TextResult("Found files (showing first 50):", <<>>)
                              EXCEPT !.paths = limitedFiles(files)], d, <<>>)

\* lines 857-878
readListCreate(d, root, name, args) ==
    LET fullPath == getFullPath(root, args.path)
    IN  CASE name = "read_file" ->
               IF ~existsSync(d, fullPath) THEN Outcome(Failure("File not found"), d, fullPath)
               ELSE IF readFails(d, fullPath) THEN Outcome(Failure("FS Error"), d, fullPath)
               ELSE Outcome(TextResult("", d.files[fullPath]), d, fullPath)
          [] name = "list_directory" ->
               IF ~existsSync(d, fullPath) THEN Outcome(Failure("Directory not found"), d, fullPath)
               ELSE IF fullPath \notin d.dirs THEN Outcome(Failure("FS Error"), d, fullPath)
               ELSE Outcome([TextResult("", <<>>) EXCEPT !.paths = readdirSync(d, fullPath)],
                            d, fullPath)
          [] OTHER ->
               IF mkdirFails(d, fullPath) THEN Outcome(Failure("FS Error"), d, fullPath)
               ELSE Outcome(TextResult("Created", <<>>), mkdirSync(d, fullPath), fullPath)

\* lines 881-894; the command's own effects are outside the model
executeCommand(d, args) ==
    IF args.commandFails THEN Outcome(Failure("Command Failed"), d, <<>>)
    ELSE Outcome(TextResult("output", <<>>), d, <<>>)

\* lines 896-906: any other name goes to the session when there is one
forwardOrReject(d, c, args) ==
    IF c # NoClient
    THEN IF args.serverThrows THEN Outcome(Failure("MCP Forward Error"), d, <<>>)
         ELSE Outcome(TextResult("server result", <<>>), d, <<>>)
    ELSE Outcome(Failure("Tool not found"), d, <<>>)

\* variant: read_file and list_directory need the session, as in the manager of
\* mcp_manager.ts
callToolReadsNeedSession(d, root, c, name, args) ==
    IF root = NoRoot THEN Outcome(Thrown("No project root set"), d, <<>>)
    ELSE CASE name \in {"write_file", "edit_file"} -> writeOrEdit(d, root, name, args)
           [] name = "search_files" -> searchFiles(d, args)
           [] name = "create_directory" -> readListCreate(d, root, name, args)
           [] name = "execute_command" -> executeCommand(d, args)
           [] OTHER -> IF c = NoClient
                       THEN Outcome(Thrown("MCP Client not connected"), d, <<>>)
                       ELSE forwardOrReject(d, c, args)

\* lines 800-906
callTool(d, root, c, name, args) ==
    IF root = NoRoot THEN Outcome(Thrown("No project root set"), d, <<>>)
    ELSE CASE name \in {"write_file", "edit_file"} -> writeOrEdit(d, root, name, args)
           [] name = "search_files" -> searchFiles(d, args)
           [] name \in {"read_file", "list_directory", "create_directory"} ->
                readListCreate(d, root, name, args)
           [] name = "execute_command" -> executeCommand(d, args)
           [] OTHER -> forwardOrReject(d, c, args)

\* ---- the requests the model makes ----
PathTools == {"write_file", "edit_file", "read_file", "list_directory", "create_directory"}

\* relative, with a leading separator, with ".." segments, in a subdirectory
PathArgs ==
    {<<"f">>, <<"/", "f">>, <<"..", "/", "f">>, <<"d", "/", "..", "/", "f">>, <<"d", "/", "f">>}

NoArgs ==
    [path |-> <<>>, content |-> <<>>, search |-> <<>>, replace |-> <<>>, matches |-> 0,
     globThrows |-> FALSE, commandFails |-> FALSE, serverThrows |-> FALSE]

ToolRequests ==
    {[name |-> "write_file", args |-> [NoArgs EXCEPT !.path = p, !.content = t]] :
        p \in PathArgs, t \in {<<>>, <<"c">>}}
    \cup {[name |-> "edit_file",
           args |-> [NoArgs EXCEPT !.path = p, !.search = sr[1], !.replace = sr[2]]] :
        p \in PathArgs, sr \in {<<"a">>, <<"c">>} \X {<<>>, <<"b">>}}
    \cup {[name |-> n, args |-> [NoArgs EXCEPT !.path = p]] :
        n \in {"read_file", "list_directory", "create_directory"}, p \in PathArgs}
    \cup {[name |-> "search_files", args |-> [NoArgs EXCEPT !.matches = n]] :
        n \in {0, 1, SEARCH_LIMIT - 1, SEARCH_LIMIT, SEARCH_LIMIT + 1, 2 * SEARCH_LIMIT}}
    \cup {[name |-> "search_files", args |-> [NoArgs EXCEPT !.globThrows = TRUE]]}
    \cup {[name |-> "execute_command", args |-> [NoArgs EXCEPT !.commandFails = b]] : b \in BOOLEAN}
    \cup {[name |-> "delete_file", args |-> [NoArgs EXCEPT !.serverThrows = b]] : b \in BOOLEAN}

\* the roots connect is called with; the last one is not normalised
RootArgs == {<<"p">>, <<"q">>, <<"q", "..", "p">>}

InitialDisk ==
    [files |-> (<<"p", "f">> :> <<"a", "b">>) @@ (<<"q", "f">> :> <<"b">>) @@ (<<"f">> :> <<"a">>),
     dirs  |-> {<<>>, <<"p">>, <<"q">>}]

NoConnectCall == [pc |-> "idle", rootPath |-> <<>>, noop |-> FALSE]

\* no streamChat invocation is using the manager
NoCallers == <<>>

NoToolCall == [name |-> "", args |-> NoArgs, result |-> NoResult, touched |-> <<>>]

ToolsIdle ==
    /\ client = NoClient
    /\ transport = NoClient
    /\ currentRoot = NoRoot
    /\ sessions = [spawned |-> 0, open |-> {}]
    /\ connectCall = NoConnectCall
    /\ disk = InitialDisk
    /\ toolCall = NoToolCall
    /\ ops = 0
    /\ callers = NoCallers

\* variant: a connected manager never reconnects
alreadyConnectedAnyRoot(c, root, normalizedPath) == c # NoClient

\* line 770
alreadyConnected(c, root, normalizedPath) == c # NoClient /\ root = normalizedPath

\* lines 776-786: the root is set, transport and client are created and the
\* connection is started
Establish(normalizedPath, stillOpen) ==
    /\ currentRoot' = normalizedPath
    /\ transport' = sessions.spawned + 1
    /\ client' = sessions.spawned + 1
    /\ sessions' = [spawned |-> sessions.spawned + 1,
                    open |-> stillOpen \cup {sessions.spawned + 1}]

\* lines 768-786: a call of connect, up to its first suspension point
Connect ==
    /\ connectCall.pc \in {"idle", "returned"}
    /\ \E rootPath \in RootArgs :
          IF alreadyConnected(client, currentRoot, normalize(rootPath))
          THEN /\ connectCall' = [pc |-> "returned", rootPath |-> rootPath, noop |-> TRUE]
               /\ UNCHANGED <<client, transport, currentRoot, sessions>>
          ELSE IF client # NoClient
          THEN /\ sessions.spawned < MaxSessions
               /\ connectCall' = [pc |-> "closing", rootPath |-> rootPath, noop |-> FALSE]
               /\ UNCHANGED <<client, transport, currentRoot, sessions>>
          ELSE /\ sessions.spawned < MaxSessions
               /\ connectCall' = [pc |-> "connecting", rootPath |-> rootPath, noop |-> FALSE]
               /\ Establish(normalize(rootPath), sessions.open)
    /\ UNCHANGED <<disk, toolCall, ops, callers, runVars, textVars, streamVars>>

\* lines 773-786: transport.close() is over (the old server process has ended)
ConnectAfterClose ==
    /\ connectCall.pc = "closing"
    /\ connectCall' = [connectCall EXCEPT !.pc = "connecting"]
    /\ Establish(normalize(connectCall.rootPath), sessions.open \ {transport})
    /\ UNCHANGED <<disk, toolCall, ops, callers, runVars, textVars, streamVars>>

\* lines 786-787: client.connect resolved
ConnectSucceeds ==
    /\ connectCall.pc = "connecting"
    /\ connectCall' = [connectCall EXCEPT !.pc = "returned"]
    /\ UNCHANGED <<client, transport, currentRoot, sessions, disk, toolCall, ops, callers,
                   runVars, textVars, streamVars>>

\* lines 788-791: client.connect rejected; the server process is gone
ConnectFails ==
    /\ connectCall.pc = "connecting"
    /\ connectCall' = [connectCall EXCEPT !.pc = "returned"]
    /\ client' = NoClient
    /\ sessions' = [sessions EXCEPT !.open = @ \ {transport}]
    /\ UNCHANGED <<transport, currentRoot, disk, toolCall, ops, callers, runVars, textVars,
                   streamVars>>

\* lines 800-906: one call of callTool, between two calls of connect
CallTool ==
    /\ connectCall.pc \in {"idle", "returned"}
    /\ ops < MaxOps
    /\ \E request \in ToolRequests :
          LET out == callTool(disk, currentRoot, client, request.name, request.args)
          IN  /\ toolCall' = [name |-> request.name, args |-> request.args,
                              result |-> out.result, touched |-> out.touched]
              /\ disk' = out.disk
    /\ ops' = ops + 1
    /\ UNCHANGED <<client, transport, currentRoot, sessions, connectCall, callers, runVars,
                   textVars, streamVars>>

ToolsInit ==
    /\ RunIdle
    /\ PatchIdle
    /\ SseIdle
    /\ ToolsIdle
    /\ StreamIdle

ToolsNext ==
    \/ Connect
    \/ ConnectAfterClose
    \/ ConnectSucceeds
    \/ ConnectFails
    \/ CallTool

SpecTools == ToolsInit /\ [][ToolsNext]_vars

(***************************************************************************)
(* The manager is one object for the whole process (line 909), and every   *)
(* streamChat invocation of a chat with a project connects it to the       *)
(* chat's root (line 124) before it asks a provider and calls tools.  Two  *)
(* invocations, for the roots p and q, run at the same time and interleave *)
(* at their suspension points; an invocation that has returned may be      *)
(* followed by the next one of its chat.                                   *)
(***************************************************************************)
MaxSpawns == 3          \* transports created in one exploration of the shared manager

Callers == {"A", "B"}

\* appRoot of the chat the invocation belongs to (line 116)
appRootOf(c) == IF c = "A" THEN <<"p">> ELSE <<"q">>

\* session: the transport this invocation's connect created last;
\* closing: the transport whose close() it awaits; called: its callTool calls
NoCaller == [pc |-> "start", session |-> NoClient, closing |-> NoClient, called |-> 0]

\* what the invocations ask of the tools: a read and a write of the same relative path
SharedRequests ==
    {request \in ToolRequests :
        /\ request.name \in {"read_file", "write_file"}
        /\ request.args.path = <<"f">>}

\* line 124 and lines 768-786: connect(appRoot) up to its first suspension point
CallerConnects(c) ==
    /\ callers[c].pc = "start"
    /\ IF alreadyConnected(client, currentRoot, normalize(appRootOf(c)))
       THEN /\ callers' = [callers EXCEPT ![c].pc = "ready"]
            /\ UNCHANGED <<client, transport, currentRoot, sessions>>
       ELSE IF client # NoClient
       THEN /\ callers' = [callers EXCEPT ![c].pc = "closing", ![c].closing = transport]
            /\ UNCHANGED <<client, transport, currentRoot, sessions>>
       ELSE /\ sessions.spawned < MaxSpawns
            /\ callers' = [callers EXCEPT ![c].pc = "connecting",
                                          ![c].session = sessions.spawned + 1]
            /\ Establish(normalize(appRootOf(c)), sessions.open)
    /\ UNCHANGED <<connectCall, disk, toolCall, ops, runVars, textVars, streamVars>>

\* lines 773-786: the close() this invocation awaited is over; it goes on with
\* the manager as it is now
CallerAfterClose(c) ==
    /\ callers[c].pc = "closing"
    /\ sessions.spawned < MaxSpawns
    /\ callers' = [callers EXCEPT ![c].pc = "connecting",
                                  ![c].session = sessions.spawned + 1,
                                  ![c].closing = NoClient]
    /\ Establish(normalize(appRootOf(c)), sessions.open \ {callers[c].closing})
    /\ UNCHANGED <<connectCall, disk, toolCall, ops, runVars, textVars, streamVars>>

\* lines 786-787: client.connect resolved, which needs the server process
CallerConnectSucceeds(c) ==
    /\ callers[c].pc = "connecting"
    /\ callers[c].session \in sessions.open
    /\ callers' = [callers EXCEPT ![c].pc = "ready"]
    /\ UNCHANGED <<client, transport, currentRoot, sessions, connectCall, disk, toolCall, ops,
                   runVars, textVars, streamVars>>

\* lines 788-791: client.connect rejected, the server process of this attempt
\* is gone; the catch clears this.client, whoever set it
CallerConnectFails(c) ==
    /\ callers[c].pc = "connecting"
    /\ callers' = [callers EXCEPT ![c].pc = "ready"]
    /\ client' = NoClient
    /\ sessions' = [sessions EXCEPT !.open = @ \ {callers[c].session}]
    /\ UNCHANGED <<transport, currentRoot, connectCall, disk, toolCall, ops, runVars, textVars,
                   streamVars>>

\* line 385 and lines 800-906: a tool call of the invocation
CallerCallsTool(c) ==
    /\ callers[c].pc = "ready"
    /\ ops < MaxOps
    /\ \E request \in SharedRequests :
          LET out == callTool(disk, currentRoot, client, request.name, request.args)
          IN  /\ toolCall' = [name |-> request.name, args |-> request.args,
                              result |-> out.result, touched |-> out.touched]
              /\ disk' = out.disk
    /\ ops' = ops + 1
    /\ callers' = [callers EXCEPT ![c].called = @ + 1]
    /\ UNCHANGED <<client, transport, currentRoot, sessions, connectCall, runVars, textVars,
                   streamVars>>

\* streamChat returns; the next message of the chat starts another invocation
CallerReturns(c) ==
    /\ callers[c].pc = "ready"
    /\ callers' = [callers EXCEPT ![c].pc = "start"]
    /\ UNCHANGED <<client, transport, currentRoot, sessions, connectCall, disk, toolCall, ops,
                   runVars, textVars, streamVars>>

SharedInit ==
    /\ RunIdle
    /\ PatchIdle
    /\ SseIdle
    /\ StreamIdle
    /\ client = NoClient
    /\ transport = NoClient
    /\ currentRoot = NoRoot
    /\ sessions = [spawned |-> 0, open |-> {}]
    /\ connectCall = NoConnectCall
    /\ disk = InitialDisk
    /\ toolCall = NoToolCall
    /\ ops = 0
    /\ callers = [c \in Callers |-> NoCaller]

SharedNext ==
    \E c \in Callers :
       \/ CallerConnects(c)
       \/ CallerAfterClose(c)
       \/ CallerConnectSucceeds(c)
       \/ CallerConnectFails(c)
       \/ CallerCallsTool(c)
       \/ CallerReturns(c)

SpecShared == SharedInit /\ [][SharedNext]_vars

Init ==
    /\ \E policy \in Policies, cred \in RunCredentials : settings = SettingsOf(policy, cred)
    /\ providerQueue = <<>>
    /\ run = InitialRun
    /\ PatchIdle
    /\ SseIdle
    /\ ToolsIdle
    /\ StreamIdle

Next ==
    \/ Alone(BuildProviderQueue)
    \/ Alone(LoadContext)
    \/ Alone(ReceiveMessage)
    \/ Alone(ReceiveEmpty)
    \/ Alone(ReceiveFailure)
    \/ Alone(SleepDone)
    \/ Alone(ToolReturns)

Spec == Init /\ [][Next]_vars

\* the router alone, over every assignment of credentials
RouterInit ==
    /\ \E policy \in Policies, cred \in AllCredentials :
          /\ policy.selectedChatMode = "agent"
          /\ policy.autoApproveChanges
          /\ policy.enableAutoFixProblems
          /\ settings = SettingsOf(policy, cred)
    /\ providerQueue = <<>>
    /\ run = InitialRun
    /\ PatchIdle
    /\ SseIdle
    /\ ToolsIdle
    /\ StreamIdle

RouterNext == Alone(BuildProviderQueue)

SpecRouter == RouterInit /\ [][RouterNext]_vars

(***************************************************************************)
(* The patch specification: one call, then the same patch once more.       *)
(***************************************************************************)
PatchInit ==
    /\ RunIdle
    /\ SseIdle
    /\ ToolsIdle
    /\ StreamIdle
    /\ \E in \in PatchInputs :
          /\ fileContent = in[1]
          /\ searchBlock = in[2]
          /\ replaceBlock = in[3]
    /\ patchResult = NoMatch
    /\ secondResult = NoMatch
    /\ patchPc = "ready"

\* a call applySearchReplace(fileContent, searchBlock, replaceBlock)
ApplyPatch ==
    /\ patchPc = "ready"
    /\ patchResult' = applySearchReplace(fileContent, searchBlock, replaceBlock)
    /\ patchPc' = "applied"
    /\ UNCHANGED <<fileContent, searchBlock, replaceBlock, secondResult, sse, runVars, toolVars,
                   streamVars>>

\* the same patch applied to the content the first call returned
ApplyPatchAgain ==
    /\ patchPc = "applied"
    /\ patchResult.kind = "content"
    /\ secondResult' = applySearchReplace(patchResult.text, searchBlock, replaceBlock)
    /\ patchPc' = "reapplied"
    /\ UNCHANGED <<fileContent, searchBlock, replaceBlock, patchResult, sse, runVars, toolVars,
                   streamVars>>

PatchNext == ApplyPatch \/ ApplyPatchAgain

SpecPatch == PatchInit /\ [][PatchNext]_vars

(***************************************************************************)
(* The streamed run: streamChat under the chat:stream handler.             *)
(***************************************************************************)
\* the settings of the streamed runs
StreamSettings ==
    {SettingsOf(policy, cred) :
        policy \in {p \in Policies : p.selectedChatMode = "agent" /\ p.enableAutoFixProblems},
        cred \in {Credentials("openai", [NoKeys EXCEPT !["openai"] = KeyPair(<<"s">>, <<>>)], FALSE)}}

\* lines 37-42: the request has arrived, its controller is registered
StreamInit ==
    /\ settings \in StreamSettings
    /\ providerQueue = <<>>
    /\ run = [InitialRun EXCEPT !.pc = "idle"]
    /\ PatchIdle
    /\ SseIdle
    /\ ToolsIdle
    /\ activeStreams = "A"
    /\ aborted = FALSE
    /\ handler = [NoHandler EXCEPT !.pc = "setup"]

\* lines 167-194: the callback, called for each chunk the step emitted
Deliver(h, isAborted, chunks) ==
    IF isAborted THEN Quiet(h)
    ELSE [h EXCEPT !.appended = chunks, !.chunkEvents = Len(chunks)]

\* lines 45-167: the database work is over, the message list is sent and
\* streamChat is called
StreamSetupDone ==
    /\ handler.pc = "setup"
    /\ handler' = [Quiet(handler) EXCEPT !.pc = "streaming", !.chunkEvents = 1]
    /\ run' = InitialRun
    /\ UNCHANGED <<settings, providerQueue, activeStreams, aborted, textVars, toolVars>>

\* lines 53, 132, 212-220: the chat is not found, the catch reports it
StreamSetupFails ==
    /\ handler.pc = "setup"
    /\ handler' = [Quiet(handler) EXCEPT !.pc = "failed", !.errorEvents = @ + 1]
    /\ activeStreams' = "none"
    /\ UNCHANGED <<runVars, aborted, textVars, toolVars>>

\* a step of streamChat under the handler: its chunks go through the callback
Streamed(step) ==
    /\ handler.pc = "streaming"
    /\ step
    /\ handler' = Deliver(handler, aborted, run'.emitted)
    /\ UNCHANGED <<activeStreams, aborted, textVars, toolVars>>

\* lines 196-210: streamChat has returned; final save and end event
StreamFinish ==
    /\ handler.pc = "streaming"
    /\ run.pc = "done"
    /\ handler' = [Quiet(handler) EXCEPT !.pc = "ended", !.endEvents = @ + 1]
    /\ UNCHANGED <<runVars, activeStreams, aborted, textVars, toolVars>>

\* lines 41-42 of another chat:stream request for the same chat
SecondStream ==
    /\ handler.pc \in {"setup", "streaming"}
    /\ activeStreams # "B"
    /\ activeStreams' = "B"
    /\ handler' = Quiet(handler)
    /\ UNCHANGED <<runVars, aborted, textVars, toolVars>>

\* lines 223-232: chat:cancel for the chat
CancelChat ==
    /\ handler.cancels < MaxCancels
    /\ aborted' = (aborted \/ activeStreams = "A")
    /\ activeStreams' = "none"
    /\ handler' = [Quiet(handler) EXCEPT !.cancels = @ + 1, !.endEvents = @ + 1]
    /\ UNCHANGED <<runVars, textVars, toolVars>>

StreamNext ==
    \/ StreamSetupDone
    \/ StreamSetupFails
    \/ Streamed(BuildProviderQueue)
    \/ Streamed(LoadContext)
    \/ Streamed(ReceiveMessage)
    \/ Streamed(ReceiveEmpty)
    \/ Streamed(ReceiveFailure)
    \/ Streamed(SleepDone)
    \/ Streamed(ToolReturns)
    \/ StreamFinish
    \/ SecondStream
    \/ CancelChat

SpecStream == StreamInit /\ [][StreamNext]_vars

(***************************************************************************)
(* Runs up to the turn cap: a single candidate, any mode and policy, and a  *)
(* provider that may ask for a tool in every turn.  Every await of the run  *)
(* returns: the fetch, the tool call and the sleep each end in a step.      *)
(***************************************************************************)
TurnsInit ==
    /\ \E policy \in Policies :
          settings = SettingsOf(policy,
                                Credentials("openai",
                                            [NoKeys EXCEPT !["openai"] = KeyPair(<<"s">>, <<>>)],
                                            FALSE))
    /\ providerQueue = <<>>
    /\ run = InitialRun
    /\ PatchIdle
    /\ SseIdle
    /\ ToolsIdle
    /\ StreamIdle

TurnsNext ==
    \/ Alone(BuildProviderQueue)
    \/ Alone(LoadContext)
    \/ Alone(ReceiveInAnyTurn)
    \/ Alone(ReceiveEmpty)
    \/ Alone(ReceiveFailure)
    \/ Alone(SleepDone)
    \/ Alone(ToolReturns)

SpecTurns == TurnsInit /\ [][TurnsNext]_vars /\ WF_vars(TurnsNext)

(***************************************************************************)
(* The streaming adapter reads one response body.                          *)
(***************************************************************************)
\* lines 77-79 (and 340-341): the response has a body and the reader is created
SseInit ==
    /\ RunIdle
    /\ PatchIdle
    /\ ToolsIdle
    /\ StreamIdle
    /\ \E stream \in SseStreams :
          \E cuts \in CutSets(Len(stream), MaxReads - 1) :
             sse = [NoReader EXCEPT !.pc = "reading", !.stream = stream,
                                    !.reads = CutAt(stream, cuts)]

\* lines 82-100 and 343-358: reader.read() has returned a value
ReadValue ==
    /\ sse.pc = "reading"
    /\ sse.reads # <<>>
    /\ LET decoded == decode(sse.pending, Head(sse.reads))
           read    == bufferedRead(sse.buffer, decoded.text)
       IN  sse' = [sse EXCEPT !.reads = Tail(@),
                              !.pending = decoded.pending,
                              !.buffer = read.buffer,
                              !.delivered = @ \o read.chunks,
                              !.deliveredUnbuffered = @ \o unbufferedRead(decoded.text)]
    /\ UNCHANGED <<runVars, patchVars, toolVars, streamVars>>

\* lines 83 and 344: reader.read() has returned done
ReadDone ==
    /\ sse.pc = "reading"
    /\ sse.reads = <<>>
    /\ sse' = [sse EXCEPT !.pc = "done"]
    /\ UNCHANGED <<runVars, patchVars, toolVars, streamVars>>

SseNext == ReadValue \/ ReadDone

SpecSSE == SseInit /\ [][SseNext]_vars

(***************************************************************************)
(* Properties of the run (specification Spec unless stated otherwise).     *)
(***************************************************************************)
\* the index of the code (0-based) for a provider cursor of the model
CodeIndex(i) == i - 1

\* a step that received an answer with one of the given statuses
Received(statuses) == run.pc = "fetch" /\ run'.lastResponse.status \in statuses

\* C1: with auto-approve off, a response that contains a mutating tool call
\* (write_file, edit_file, execute_command, create_directory) ends the run: the tool
\* executor is invoked for none of its calls, read-only ones included, and no
\* further provider request is sent.
C1_ManualApprovalHalts ==
    ( /\ ~settings.autoApproveChanges
      /\ run.responseData.present
      /\ \E k \in 1..Len(run.responseData.calls) :
            run.responseData.calls[k] \in
               {"write_file", "edit_file", "execute_command", "create_directory"} )
    => /\ run.pc = "done"
       /\ run.toolCalls = 0
       /\ run.callIdx = 0
       /\ run.turnCount = 1

C1_Witness ==
    /\ run.pc = "done"
    /\ isAgentMode(settings)
    /\ ~settings.autoApproveChanges
    /\ run.responseData.calls = <<"read_file", "write_file">>
    /\ run.toolCalls = 0
    /\ run.emitted = <<"proposal", "proposal">>

\* C2: in ask mode a run has at most one turn: once a provider response has been
\* interpreted no provider request is sent any more (no fetch, no backoff sleep),
\* whatever the response contains.
C2_AskSingleTurn ==
    ~isAgentMode(settings)
    => /\ run.turnCount <= 1
       /\ run.responseData.present => run.pc \notin {"fetch", "sleep"}

C2_Witness ==
    /\ ~isAgentMode(settings)
    /\ settings.autoApproveChanges
    /\ run.pc = "done"
    /\ run.turnCount = 1
    /\ run.responseData.content
    /\ Len(run.responseData.calls) = 2
    /\ run.toolCalls = 2

\* C3: on HTTP 429/503 a queue of more than one candidate moves the provider index
\* to (index + 1) mod length and retries without sleeping (while the turn has
\* attempts left); a queue of one candidate keeps the index and sleeps 5 s before
\* the retry; with two candidates two consecutive rate limits restore the index.
C3_RateLimitStep ==
    Received({429, 503})
    => IF Len(providerQueue) > 1
       THEN /\ CodeIndex(run'.currentProviderIndex)
                 = (CodeIndex(run.currentProviderIndex) + 1) % Len(providerQueue)
            /\ run'.pc # "sleep"
            /\ run'.sleepMs = 0
            /\ run.attempts < 10 => /\ run'.pc = "fetch"
                                    /\ run'.attempts = run.attempts + 1
       ELSE /\ run'.currentProviderIndex = run.currentProviderIndex
            /\ run'.pc = "sleep"
            /\ run'.sleepMs = 5000

C3_AfterSleep ==
    (run.pc = "sleep" /\ run' # run)
    => /\ run'.currentProviderIndex = run.currentProviderIndex
       /\ run.attempts < 10 => run'.pc = "fetch" /\ run'.attempts = run.attempts + 1

C3_TwoRestore ==
    (Len(providerQueue) = 2 /\ run.rlStreak = 2) => run.currentProviderIndex = run.streakStart

C3_RateLimitFailover ==
    /\ [][C3_RateLimitStep /\ C3_AfterSleep]_vars
    /\ []C3_TwoRestore

C3_Witness ==
    /\ Len(providerQueue) = 2
    /\ run.rlStreak = 2
    /\ run.lastResponse.status = 429
    /\ run.pc = "fetch"
    /\ run.currentProviderIndex = run.streakStart
    /\ run.emitted = <<"overloaded", "switching">>

\* C4: a turn sends at most 10 provider requests, whatever mix of rate-limit
\* failovers, backoff retries and error failovers caused them; when the tenth
\* attempt brings no response either, the run ends, streamChat returns normally
\* and no further turn starts.
C4_RequestCounted ==
    (run'.pc = "fetch" /\ run' # run)
    => \/ /\ run'.turnCount = run.turnCount
          /\ run.attempts < 10
          /\ run'.attempts = run.attempts + 1
       \/ /\ run'.turnCount = run.turnCount + 1
          /\ run'.attempts = 1

C4_Exhausted ==
    (run.pc \in {"fetch", "sleep"} /\ run.attempts = 10 /\ run' # run
        /\ ~run'.responseData.present)
    => /\ run'.pc \in {"done", "sleep"}
       /\ run'.pc = "sleep" => run.pc = "fetch"
       /\ run'.outcome # "threw"
       /\ run'.turnCount = run.turnCount
       /\ run'.attempts = 10

C4_AttemptsBounded ==
    /\ [](run.attempts <= 10)
    /\ [](run.pc = "done" => run.outcome = "returned")
    /\ [][C4_RequestCounted /\ C4_Exhausted]_vars

C4_Witness ==
    /\ run.pc = "done"
    /\ run.outcome = "returned"
    /\ run.attempts = 10
    /\ ~run.responseData.present
    /\ Len(providerQueue) = 3
    /\ run.lastResponse.status = 500
    /\ run.fatalErrors = 0

\* C5: on a provider error that is not handled as a rate limit, a queue of more
\* than one candidate advances the provider cursor and retries (while the turn has
\* attempts left); with a single candidate the error is fatal: it is sent to the
\* caller as an error chunk and the run ends with no further request or tool call.
C5_ErrorStep ==
    (Received({500}) /\ ~run'.lastResponse.mentionsRateLimit)
    => IF Len(providerQueue) > 1
       THEN /\ CodeIndex(run'.currentProviderIndex)
                 = (CodeIndex(run.currentProviderIndex) + 1) % Len(providerQueue)
            /\ run'.fatalErrors = run.fatalErrors
            /\ run'.sleepMs = 0
            /\ run.attempts < 10 => /\ run'.pc = "fetch"
                                    /\ run'.attempts = run.attempts + 1
       ELSE /\ run'.pc = "done"
            /\ run'.outcome = "returned"
            /\ run'.emitted = <<"fatalError">>
            /\ run'.fatalErrors = run.fatalErrors + 1
            /\ run'.toolCalls = run.toolCalls
            /\ run'.attempts = run.attempts

C5_ProviderError == [][C5_ErrorStep]_vars

C5_Witness ==
    /\ Len(providerQueue) = 1
    /\ run.pc = "done"
    /\ run.lastResponse = [status |-> 500, mentionsRateLimit |-> FALSE]
    /\ run.emitted = <<"fatalError">>
    /\ run.attempts = 3

\* C6 (as claimed): in auto mode the queue holds exactly the providers whose key is
\* non-blank, in priority order, and it is empty, with the configuration error,
\* when no provider has a usable key.
NonBlankKey(s, p) == Trim(getKey(s, p)) # <<>>

C6_QueueIsNonBlankKeys ==
    (run.pc # "settings" /\ settings.selectedProvider = "auto")
    => LET HasKey(p) == NonBlankKey(settings, p)
       IN  /\ QueueIds(providerQueue) = SelectSeq(PriorityChain, HasKey)
           /\ (\A p \in KnownProviders : ~HasKey(p))
                 => (providerQueue = <<>> /\ run.configErrors = 1)

\* C6 (amended): in auto mode the queue holds, in priority order, openrouter,
\* google, openai and anthropic exactly when their key is non-blank, and ollama
\* exactly when isOllamaEnabled is set or an ollama key is non-empty; every entry
\* has a non-blank key; the configuration error results exactly when it is empty.
C6_QueueAmended ==
    (run.pc # "settings" /\ settings.selectedProvider = "auto")
    => LET Listed(p) == IF p = "ollama"
                        THEN settings.isOllamaEnabled \/ getKey(settings, "ollama") # <<>>
                        ELSE NonBlankKey(settings, p)
       IN  /\ QueueIds(providerQueue) = SelectSeq(PriorityChain, Listed)
           /\ \A k \in 1..Len(providerQueue) : Trim(providerQueue[k].key) # <<>>
           /\ (providerQueue = <<>>) <=> (run.configErrors = 1)
           /\ (providerQueue = <<>>) <=> (run.pc = "done")

C6_Witness ==
    /\ run.pc = "context"
    /\ settings.selectedProvider = "auto"
    /\ settings.isOllamaEnabled
    /\ getKey(settings, "ollama") = <<>>
    /\ getKey(settings, "openrouter") = <<" ">>
    /\ settings.providerKeys["openai"] = KeyPair(<<" ">>, <<"l">>)
    /\ QueueIds(providerQueue) = <<"google", "anthropic", "ollama">>

\* C7: when the queue is empty after filtering, the configuration error is sent to
\* the caller exactly once and the run ends: no provider request, no tool call, no
\* retry.
C7_EmptyQueueEnds ==
    (run.pc # "settings" /\ Len(providerQueue) = 0)
    => /\ run.pc = "done"
       /\ run.outcome = "returned"
       /\ run.configErrors = 1
       /\ run.emitted = <<"noValidKeys">>
       /\ run.turnCount = 0
       /\ run.attempts = 0
       /\ run.toolCalls = 0
       /\ run.sleepMs = 0

C7_Witness ==
    /\ run.pc = "done"
    /\ providerQueue = <<>>
    /\ settings.providerKeys["openai"] = KeyPair(<<" ">>, <<"l">>)
    /\ run.configErrors = 1
    /\ run.attempts = 0

(***************************************************************************)
(* Properties of applySearchReplace (specification SpecPatch).             *)
(***************************************************************************)
LF == <<"\n">>

fileLinesOf(text) == SplitLines(text)

\* the line-joined texts the exact path compares
fileStrOf(text) == Join(SplitLines(text), LF)

Spaces(n) == [k \in 1..n |-> " "]

\* the search block equals the region of n lines starting at line i, except
\* for one or more extra trailing spaces on each line
DriftAt(lines, searchLines, i) ==
    /\ i + Len(searchLines) - 1 <= Len(lines)
    /\ \A k \in 1..Len(searchLines) :
          \E n \in 1..Len(searchLines[k]) :
             searchLines[k] = lines[i + k - 1] \o Spaces(n)

RegionNonBlank(lines, i, n) == \E k \in i..(i + n - 1) : Trim(lines[k]) # <<>>

\* the window starting at i would be accepted outright by the scan
NearPerfect(lines, searchLines, i) ==
    /\ i + Len(searchLines) - 1 <= Len(lines)
    /\ ~FirstLineSkip(lines[i], searchLines[1])
    /\ WindowScore(lines, searchLines, i).den > 0
    /\ ScoreAbovePct(WindowScore(lines, searchLines, i), 99)

\* some window passes the first-line gate and reaches the threshold
SomeWindowReaches(lines, searchLines, pct) ==
    \E i \in 1..(Len(lines) - Len(searchLines) + 1) :
       /\ ~FirstLineSkip(lines[i], searchLines[1])
       /\ WindowScore(lines, searchLines, i).den > 0
       /\ ScoreAtLeastPct(WindowScore(lines, searchLines, i), pct)

\* in the result, the replacement lines placed at window w carry the indentation
\* of line w of the file
CarriesIndent(resultText, lines, replaceLines, w) ==
    LET out == SplitLines(resultText)
    IN  \A k \in 1..Len(replaceLines) :
           Trim(replaceLines[k]) # <<>>
           => /\ w + k - 1 <= Len(out)
              /\ out[w + k - 1] = LeadingWS(lines[w]) \o TrimStart(replaceLines[k])

SecondApplyCase ==
    /\ patchPc = "reapplied"
    /\ patchResult.via = "exact"
    /\ ~Includes(fileStrOf(patchResult.text), fileStrOf(searchBlock))

\* C8 (as claimed): after an exact-path patch, applying the same (search, replace)
\* to the result, when the search text no longer occurs verbatim in it, returns
\* none.
C8_SecondApplyIsNone == SecondApplyCase => secondResult.kind = "none"

\* C8 (amended): in that case the second application never takes the exact path,
\* and it returns none exactly when no window of the result that passes the
\* first-line gate is at least 0.85 similar to the search block; for the file
\* "function foo() {\n  return 1;\n}\n" with "return 1;" -> "return 2;" it is not
\* none: the line "  return 2;" scores 8/9 and the content comes back unchanged.
C8_SecondApplyAmended ==
    SecondApplyCase
    => /\ secondResult.via # "exact"
       /\ (secondResult.kind = "none")
             <=> ~SomeWindowReaches(SplitLines(patchResult.text), SplitLines(searchBlock), 85)
       /\ (fileContent = FooFile /\ searchBlock = Return1 /\ replaceBlock = Return2)
             => /\ secondResult.kind = "content"
                /\ secondResult.index = 2
                /\ secondResult.text = patchResult.text

C8_Witness ==
    /\ SecondApplyCase
    /\ fileContent = FooFile
    /\ searchBlock = Return1
    /\ replaceBlock = Return2
    /\ secondResult.kind = "content"

\* C9 (as claimed): when the line-joined search block occurs verbatim in the
\* line-joined file, the result is that text with exactly the first occurrence
\* replaced by the replace block, every other character unchanged, and the fuzzy
\* path is not run.
C9_ExactReplacesLiterally ==
    (patchPc # "ready" /\ Includes(fileStrOf(fileContent), fileStrOf(searchBlock)))
    => LET str == fileStrOf(fileContent)
           pat == fileStrOf(searchBlock)
           p   == IndexOf(str, pat)
       IN  /\ patchResult.kind = "content"
           /\ patchResult.via = "exact"
           /\ patchResult.text = SubSeq(str, 1, p - 1) \o fileStrOf(replaceBlock)
                                   \o SubSeq(str, p + Len(pat), Len(str))

CRLF == <<"\r", "\n">>

\* the window starting at i is not scored (both trimmed blocks empty) or scores below pct
WindowBelow(lines, searchLines, i, pct) ==
    LET sc == WindowScore(lines, searchLines, i)
    IN  sc.den = 0 \/ ScoreBelowPct(sc, pct)

\* C11: when the search block does not occur verbatim and every window of the file
\* is less than 0.85 similar to it (trimmed lines), the result is none and carries
\* no content; a window is replaced only when its score is at least 0.85.
C11_BelowThresholdIsNone ==
    patchPc # "ready"
    => LET lines == SplitLines(fileContent)
           sl    == SplitLines(searchBlock)
       IN  /\ ( /\ ~Includes(fileStrOf(fileContent), fileStrOf(searchBlock))
                /\ \A i \in 1..(Len(lines) - Len(sl) + 1) : WindowBelow(lines, sl, i, 85) )
              => patchResult = NoMatch
           /\ patchResult.via = "fuzzy"
              => /\ WindowScore(lines, sl, patchResult.index).den > 0
                 /\ ScoreAtLeastPct(WindowScore(lines, sl, patchResult.index), 85)

C11_Witness ==
    /\ patchPc = "applied"
    /\ fileContent = <<"a", "a">>
    /\ searchBlock = <<"a", " ", "a">>
    /\ WindowScore(SplitLines(fileContent), SplitLines(searchBlock), 1) = [num |-> 2, den |-> 3]
    /\ ~FirstLineSkip(fileContent, searchBlock)
    /\ patchResult = NoMatch

\* C12 (as claimed): returned content keeps the line-ending convention of the file:
\* for a file that uses CRLF every line break of the result is CRLF, for an LF file
\* the result holds no CRLF; on the exact path and on the fuzzy path.
C12_KeepsLineEndings ==
    patchResult.kind = "content"
    => IF Includes(fileContent, CRLF)
       THEN \A k \in 1..Len(patchResult.text) :
               patchResult.text[k] = "\n" => (k > 1 /\ patchResult.text[k - 1] = "\r")
       ELSE ~Includes(patchResult.text, CRLF)

(***************************************************************************)
(* Properties of tool execution inside the run (specification Spec).       *)
(***************************************************************************)
\* the response held by the run is one whose tool calls are executed
CallsExecuted ==
    /\ run.responseData.present
    /\ Len(run.responseData.calls) > 0
    /\ ~Intercepts(settings, run.responseData.calls)

\* the calls of the current response that have returned or thrown
CallsFinished ==
    IF run.pc = "tool" THEN run.callIdx - 1 ELSE Len(run.responseData.calls)

\* the history ends with the assistant message of the response followed by one
\* tool message per finished call, bound to the calls in request order
C16_HistoryShape ==
    CallsExecuted
    => LET n == Len(run.responseData.calls)
           j == CallsFinished
           m == run.messages
       IN  /\ run.pc \in {"tool", "done"}
           /\ Len(m) >= j + 1
           /\ [m[Len(m) - j] EXCEPT !.args = "asReceived"] = Msg("assistant", n, 0)
           /\ \A k \in 1..j : m[Len(m) - j + k] = Msg("tool", 0, k)
           /\ run.fatalErrors = 0

\* a call that returns, returns an error or throws adds its tool message, and the
\* loop goes on without an exception
C16_ToolStep ==
    (run.pc = "tool" /\ run' # run)
    => /\ Len(run'.messages) = Len(run.messages) + 1
       /\ run'.messages[Len(run'.messages)] = Msg("tool", 0, run.callIdx)
       /\ run'.fatalErrors = run.fatalErrors
       /\ run'.outcome # "threw"
       /\ run'.pc = "tool" => run'.callIdx = run.callIdx + 1

\* C16 (as claimed): for a response whose tool calls are executed, the assistant
\* message with the calls is appended first, the calls run one at a time in request
\* order, every call adds exactly one tool message bound to its id whether it
\* succeeds, returns an error or throws, and no exception reaches the loop.
C16_ToolMessagesInOrder ==
    /\ []C16_HistoryShape
    /\ [][C16_ToolStep]_vars

\* a step in which a tool call returns (or throws)
ToolReturned == run.pc = "tool" /\ run' # run

\* C17 (as claimed): with the auto-fix policy disabled, once a tool call yields an
\* error the run stops, with no further tool call and no further provider request;
\* with the policy enabled the run continues to the next turn.
C17_StopStep ==
    ToolReturned
    => IF run'.hasError /\ ~settings.enableAutoFixProblems
       THEN /\ run'.pc = "done"
            /\ run'.toolCalls = run.toolCalls
            /\ run'.attempts = run.attempts
       ELSE (run.callIdx = Len(run.responseData.calls) /\ run.turnCount < MAX_TURNS(settings))
            => /\ run'.pc = "fetch"
               /\ run'.turnCount = run.turnCount + 1

C17_StopsAtFirstToolError == [][C17_StopStep]_vars

\* C17 (amended): a tool error does not interrupt the calls of the same response:
\* after a call that is not the last one the next call is executed, whatever the
\* policy (a next call with null arguments ends the run with a fatal error); after
\* the last call the run stops, without a further provider request, when the policy
\* is disabled and some call of the response yielded an error; otherwise it goes
\* to the next turn while the turn cap allows, and ends when it does not.
C17_AmendedStep ==
    ToolReturned
    => IF run.callIdx < Len(run.responseData.calls)
       THEN IF run.responseData.nullArgs = run.callIdx + 1
            THEN run'.pc = "done" /\ run'.fatalErrors = run.fatalErrors + 1
                                  /\ run'.toolCalls = run.toolCalls
            ELSE /\ run'.pc = "tool"
                 /\ run'.callIdx = run.callIdx + 1
                 /\ run'.toolCalls = run.toolCalls + 1
                 /\ run'.attempts = run.attempts
       ELSE /\ run'.toolCalls = run.toolCalls
            /\ IF (run'.hasError /\ ~settings.enableAutoFixProblems)
                  \/ run.turnCount >= MAX_TURNS(settings)
               THEN /\ run'.pc = "done"
                    /\ run'.outcome = "returned"
                    /\ run'.attempts = run.attempts
                    /\ run'.turnCount = run.turnCount
               ELSE /\ run'.pc = "fetch"
                    /\ run'.turnCount = run.turnCount + 1
                    /\ run'.attempts = 1

C17_StopsAfterTheResponse == [][C17_AmendedStep]_vars

C17_Witness ==
    /\ run.pc = "done"
    /\ ~settings.enableAutoFixProblems
    /\ isAgentMode(settings) /\ settings.autoApproveChanges
    /\ run.responseData.calls = <<"write_file", "read_file">>
    /\ run.hasError
    /\ run.toolCalls = 2
    /\ run.turnCount = 1
    /\ run.emitted = <<"toolFailed">>
    /\ Len(run.messages) = 5

\* a step in which callTool is called and returns
ToolCalled == ops' = ops + 1

\* C13: an edit_file call never throws once a root is set and changes at most the
\* target file; when the patcher finds no match for the search block in the
\* target file the result is an error and the disk is exactly as it was; when the
\* target file changes, its new content is the complete content the patcher
\* returned and the result is a success.
C13_EditStep ==
    (ToolCalled /\ toolCall'.name = "edit_file" /\ currentRoot # NoRoot)
    => LET fullPath == toolCall'.touched
           args == toolCall'.args
       IN  /\ toolCall'.result.kind \in {"error", "success"}
           /\ DOMAIN disk'.files = DOMAIN disk.files
           /\ \A p \in DOMAIN disk.files \ {fullPath} : disk'.files[p] = disk.files[p]
           /\ fullPath \in DOMAIN disk.files
              => LET patched == applySearchReplace(disk.files[fullPath], args.search, args.replace)
                 IN  /\ patched.kind = "none"
                        => /\ toolCall'.result.kind = "error"
                           /\ disk' = disk
                     /\ disk'.files[fullPath] # disk.files[fullPath]
                        => /\ patched.kind = "content"
                           /\ disk'.files[fullPath] = patched.text
                           /\ toolCall'.result.kind = "success"

C13_EditFailsWithoutWriting == [][C13_EditStep]_vars

C13_Witness ==
    /\ toolCall.name = "edit_file"
    /\ toolCall.result = Failure("Search block not found")
    /\ toolCall.touched = <<"p", "f">>
    /\ toolCall.args.search = <<"c">>
    /\ disk.files[<<"p", "f">>] = <<"a", "b">>
    /\ applySearchReplace(<<"a", "b">>, toolCall.args.search, toolCall.args.replace).kind = "none"

\* C14: the path a path-taking tool touches lies under the current project root,
\* whatever the path argument.
C14_PathStep ==
    (ToolCalled /\ toolCall'.name \in PathTools /\ currentRoot # NoRoot)
    => IsUnder(currentRoot, toolCall'.touched)

C14_PathsStayUnderRoot == [][C14_PathStep]_vars

\* C15: when the glob yields n files, search_files returns the first min(n, 50)
\* of them, and for n > 50 the result text says that the first 50 are shown.
C15_SearchIsLimited ==
    (toolCall.name = "search_files" /\ toolCall.result.kind # "thrown"
        /\ ~toolCall.args.globThrows)
    => /\ toolCall.result.kind = "content"
       /\ toolCall.result.paths =
             [i \in 1..Min2(toolCall.args.matches, SEARCH_LIMIT) |-> i]
       /\ toolCall.args.matches > SEARCH_LIMIT
          => toolCall.result.message = "Found files (showing first 50):"

C15_Witness ==
    /\ toolCall.name = "search_files"
    /\ toolCall.args.matches = SEARCH_LIMIT + 1
    /\ Len(toolCall.result.paths) = SEARCH_LIMIT
    /\ toolCall.result.message = "Found files (showing first 50):"

\* a step in which connect is called
ConnectCalled == connectCall.pc \in {"idle", "returned"} /\ connectCall' # connectCall

\* C20, the call: with a session connected, connect(root) changes nothing when
\* the current root is the normalised root, and starts the teardown otherwise.
C20_CallStep ==
    (ConnectCalled /\ client # NoClient)
    => /\ UNCHANGED <<client, transport, currentRoot, sessions>>
       /\ IF currentRoot = Resolve(<<>>, connectCall'.rootPath)
          THEN connectCall'.pc = "returned"
          ELSE connectCall'.pc = "closing"

\* C20, the replacement: a session handle takes the place of another one only
\* with a change of the root, and a new session is opened only when no earlier
\* one is open any more; the call returns with the normalised root as the root.
C20_ReplaceStep ==
    /\ (client' \notin {client, NoClient})
       => /\ client # NoClient => currentRoot' # currentRoot
          /\ sessions'.open = {client'}
          /\ currentRoot' = Resolve(<<>>, connectCall.rootPath)
             \/ currentRoot' = Resolve(<<>>, connectCall'.rootPath)
    /\ (connectCall.pc = "connecting" /\ connectCall'.pc = "returned")
       => /\ currentRoot' = Resolve(<<>>, connectCall.rootPath)
          /\ client' # NoClient => sessions'.open = {client'}

\* C20: connect is a no-op on the connected root and replaces the session,
\* old one closed first, on another root.
C20_ConnectIsIdempotent ==
    /\ [](sessions.open \subseteq {transport})
    /\ [][C20_CallStep /\ C20_ReplaceStep]_vars

C20_Witness ==
    /\ connectCall = [pc |-> "returned", rootPath |-> <<"q", "..", "p">>, noop |-> TRUE]
    /\ currentRoot = <<"p">>
    /\ sessions = [spawned |-> 2, open |-> {2}]
    /\ client = 2
    /\ transport = 2

\* C18: once chat:cancel has been handled for the chat, the running stream sends
\* no further chunk event and appends nothing to the accumulated response.
C18_CancelStep ==
    (handler.cancels > 0 /\ handler.pc \in {"setup", "streaming"})
    => /\ handler'.chunkEvents = 0
       /\ handler'.appended = <<>>

C18_NoOutputAfterCancel == [][C18_CancelStep]_vars

\* C19: once the stream's abort has been signalled, no step of the run sends a
\* provider request, invokes a tool or starts a backoff sleep.
C19_AbortStep ==
    (aborted /\ run' # run)
    => /\ run'.pc \notin {"fetch", "tool", "sleep"}
       /\ run'.toolCalls = run.toolCalls

C19_RunStopsAfterAbort == [][C19_AbortStep]_vars

\* ---- C21: a failed connection ----
\* C21, the failure: when the session cannot be established the connect call
\* returns, with no session and with the normalised requested root as the root.
C21_FailStep ==
    (connectCall.pc = "connecting" /\ client' = NoClient)
    => /\ connectCall'.pc = "returned"
       /\ currentRoot' = Resolve(<<>>, connectCall.rootPath)
       /\ currentRoot' # NoRoot

\* C21, the calls: with a root and no session, a call of any tool of the catalog
\* returns a result instead of throwing, and the result is the one the local
\* handler gives whatever the session is.
C21_LocalStep ==
    (ToolCalled /\ client = NoClient /\ currentRoot # NoRoot
     /\ toolCall'.name \in PathTools \cup {"search_files", "execute_command"})
    => /\ toolCall'.result.kind \in {"success", "content", "error"}
       /\ toolCall'.result.message \notin {"Tool not found", "MCP Client not connected"}
       /\ \A c \in 0..MaxSessions :
             callTool(disk, currentRoot, c, toolCall'.name, toolCall'.args).result
                = toolCall'.result

\* C21: a connection failure leaves the root set and every catalog tool served
\* locally.
C21_FailedConnectFallsBack == [][C21_FailStep /\ C21_LocalStep]_vars

C21_Witness ==
    /\ connectCall = [pc |-> "returned", rootPath |-> <<"q", "..", "p">>, noop |-> FALSE]
    /\ client = NoClient
    /\ currentRoot = <<"p">>
    /\ sessions = [spawned |-> 1, open |-> {}]
    /\ toolCall.name = "read_file"
    /\ toolCall.result.kind = "content"

\* ---- C22: runs that end because of an error ----
\* C22: a run that has ended for want of credentials, or right after a provider
\* error that left it without a response, has returned normally and the last
\* chunk it delivered is an error message (the configuration error or the fatal
\* error), not a progress notice.
C22_ErrorRunsEndWithErrorChunk ==
    (/\ run.pc = "done"
     /\ \/ run.configErrors > 0
        \/ /\ ~run.responseData.present
           /\ run.lastResponse.status = 500
           /\ ~isRateLimit(run.lastResponse))
    => /\ run.outcome = "returned"
       /\ run.emitted # <<>>
       /\ run.emitted[Len(run.emitted)] \in {"noValidKeys", "fatalError"}

\* ---- C23: the conversation history ----
\* the history of the step before is the beginning of the history after it
C23_PrefixStep ==
    run.messages # <<>>
    => /\ Len(run'.messages) >= Len(run.messages)
       /\ SubSeq(run'.messages, 1, Len(run.messages)) = run.messages

\* C23: the history starts as [system, history, user] and from then on every
\* earlier history is an unchanged prefix of the current one.
C23_HistoryAppendOnly ==
    /\ [][run.messages = <<>> /\ run'.messages # <<>>
            => \E history \in Histories :
                  SubSeq(run'.messages, 1, Len(history) + 2)
                     = <<Msg("system", 0, 0)>> \o history \o <<Msg("user", 0, 0)>>]_vars
    /\ [][C23_PrefixStep]_vars

\* ---- C24: termination (specification SpecTurns) ----
\* the provider requests a run can have sent so far: ten for each earlier turn
\* and the attempts of the current one
RequestsAtMost == IF run.turnCount = 0 THEN 0 ELSE (run.turnCount - 1) * 10 + run.attempts

\* a step that sends a provider request raises that count by at least one
C24_RequestStep ==
    (run'.pc = "fetch" /\ run' # run)
    => /\ RequestsAtMost' >= RequestsAtMost + 1
       /\ run'.turnCount >= run.turnCount

\* C24: the turn count stays within the cap (50 in agent mode with auto-approve,
\* else 1), a turn holds at most 10 requests, the requests sent stay within
\* cap x 10, and when every request, tool call and sleep returns the run ends.
C24_RunTerminates ==
    /\ [](LET maxTurns == IF isAgentMode(settings) /\ settings.autoApproveChanges
                            THEN 50 ELSE 1
          IN  /\ run.turnCount <= maxTurns
              /\ run.attempts <= 10
              /\ RequestsAtMost <= maxTurns * 10)
    /\ [][C24_RequestStep]_vars
    /\ <>(run.pc = "done")

C24_Witness ==
    /\ run.pc = "done"
    /\ run.outcome = "returned"
    /\ run.turnCount = 50
    /\ run.toolCalls = 50
    /\ run.attempts = 1

\* ---- C25: a response without tool calls (specification SpecTurns) ----
\* a step that received a message of the provider without tool calls: the run
\* holds such a message, or the step delivered its content and nothing else
ReceivedNoCalls ==
    /\ run.pc = "fetch"
    /\ \/ run'.responseData.present /\ run'.responseData.calls = <<>>
       \/ run'.emitted = <<"content">>

\* C25, the step: the response without tool calls ends the run in that very
\* step, with no further request, sleep or tool call.
C25_FinalStep ==
    ReceivedNoCalls
    => /\ run'.pc = "done"
       /\ run'.outcome = "returned"
       /\ run'.turnCount = run.turnCount
       /\ run'.attempts = run.attempts
       /\ run'.toolCalls = run.toolCalls
       /\ run'.sleepMs = 0

\* C25: in every mode and at every turn a response without tool calls is the
\* last thing the run receives: the run is over and stays so.
C25_NoCallsEndsRun ==
    /\ [][C25_FinalStep]_vars
    /\ [][run.pc = "done" => run' = run]_vars

C25_Witness ==
    /\ isAgentMode(settings)
    /\ settings.autoApproveChanges
    /\ run.pc = "done"
    /\ run.turnCount = 3
    /\ run.toolCalls = 2
    /\ run.responseData = Message(TRUE, <<>>)
    /\ run.emitted = <<"content">>

\* ---- C26: a response with content and no tool calls (specification SpecTurns) ----
\* a step that received a message with content and without tool calls
ReceivedContentOnly == run.pc = "fetch" /\ run'.emitted = <<"content">>

\* C26 (as claimed): the assistant message is appended; the run is over in ask
\* mode or when the turn cap is reached, and otherwise, in agent mode with
\* auto-approve and turns left, the next provider request is sent.
C26_LoopsBackWithTurnsLeft ==
    [][ReceivedContentOnly
       => /\ run'.messages = Append(run.messages, Msg("assistant", 0, 0))
          /\ IF ~isAgentMode(settings) \/ run'.turnCount >= MAX_TURNS(settings)
             THEN run'.pc = "done"
             ELSE run'.pc = "fetch" /\ run'.attempts = 1]_vars

\* C26 (amended): the content is delivered, the assistant message is appended and
\* the run is over, in every mode and with turns left as well; the turn counter,
\* raised when the turn began, stays as it is and no request follows.
C26_ContentOnlyEndsRun ==
    [][ReceivedContentOnly
       => /\ run'.messages = Append(run.messages, Msg("assistant", 0, 0))
          /\ run'.responseData = Message(TRUE, <<>>)
          /\ run'.pc = "done"
          /\ run'.outcome = "returned"
          /\ run'.turnCount = run.turnCount
          /\ run.turnCount >= 1
          /\ run'.attempts = run.attempts]_vars

C26_Witness ==
    /\ isAgentMode(settings)
    /\ settings.autoApproveChanges
    /\ run.pc = "done"
    /\ run.turnCount = 2
    /\ run.turnCount < MAX_TURNS(settings)
    /\ run.responseData = Message(TRUE, <<>>)
    /\ run.messages[Len(run.messages)] = Msg("assistant", 0, 0)
    /\ run.attempts = 2

\* ---- C27: read_file and list_directory with and without a session ----
\* C27: a read_file or list_directory call is answered by the session when one
\* is connected and by the local handler when none is; the caller gets the same
\* result either way, and without a session the call neither throws nor is
\* rejected for want of one.
C27_ReadStep ==
    (ToolCalled /\ currentRoot # NoRoot /\ toolCall'.name \in {"read_file", "list_directory"})
    => LET local == readListCreate(disk, currentRoot, toolCall'.name, toolCall'.args).result
       IN  /\ IF client # NoClient
              THEN toolCall'.result \in {TextResult("server result", <<>>),
                                         Failure("MCP Forward Error")}
              ELSE toolCall'.result = local
           /\ \A c \in 0..MaxSessions :
                 callTool(disk, currentRoot, c, toolCall'.name, toolCall'.args).result = local
           /\ client = NoClient
              => /\ toolCall'.result.kind # "thrown"
                 /\ toolCall'.result.message \notin {"Tool not found", "MCP Client not connected"}

C27_ReadsPreferSession == [][C27_ReadStep]_vars

\* ---- C28: which failed responses count as rate limits ----
\* C28: a failed response takes the rate-limit path (the overloaded notice, then
\* the switch, or the 5 s sleep with a single candidate) exactly when its status
\* is 429 or 503; with any other status, whatever the body says, it takes the
\* provider-error path (the switch, or the fatal error with a single candidate,
\* and never the overloaded notice or the sleep).
C28_StatusStep ==
    Received({429, 503, 500})
    => IF run'.lastResponse.status \in {429, 503}
       THEN /\ run'.emitted[1] = "overloaded"
            /\ run'.fatalErrors = run.fatalErrors
       ELSE /\ run'.emitted[1] \in {"errorSwitching", "fatalError"}
            /\ run'.pc # "sleep"
            /\ Len(providerQueue) = 1 => run'.pc = "done" /\ run'.fatalErrors = run.fatalErrors + 1

C28_RateLimitByStatusOnly == [][C28_StatusStep]_vars

\* ---- C29: the streaming adapter and the cuts of the stream (specification SpecSSE) ----
\* what each reader delivers for the stream received in a single read
UnsplitText == decode(<<>>, sse.stream).text

\* no line follows the terminator line
TerminatorLast ==
    LET lines == SplitNewline(UnsplitText)
    IN  \A k \in 1..Len(lines) :
           Trim(lines[k]) = DoneLine => \A j \in (k + 1)..Len(lines) : Trim(lines[j]) = <<>>

\* the reader of lines 76-102 delivers the same fragments however the stream is cut
C29_BufferedReader ==
    sse.pc = "done" => sse.delivered = bufferedRead(<<>>, UnsplitText).chunks

\* C29: when the body has been read to its end, what was delivered is what the
\* same stream delivers when it arrives in one read, for the reader that keeps
\* a buffer (lines 76-102) and for the one that does not (lines 341-359).
C29_SplitInvariant ==
    (sse.pc = "done" /\ TerminatorLast)
    => /\ sse.delivered = bufferedRead(<<>>, UnsplitText).chunks
       /\ sse.deliveredUnbuffered = unbufferedRead(UnsplitText)

\* ---- C30: the notices of a tool call ----
\* the outcome notices among the chunks of a step
OutcomeNotices(chunks) ==
    Cardinality({k \in 1..Len(chunks) : chunks[k] \in {"toolDone", "toolFailed"}})

\* C30, before the call: while a tool call is awaited, the last chunk delivered
\* is the notice that announces it.
C30_StartedFirst ==
    run.pc = "tool" => /\ run.emitted # <<>>
                       /\ run.emitted[Len(run.emitted)] = "toolStarted"

\* C30, after the call: whatever the call returned, the step delivers exactly
\* one outcome notice, first of its chunks, and the notice is "succeeded" for a
\* call that returned content or a plain success and "failed" for a call that
\* returned an error or threw, whatever the earlier calls of the turn did.
C30_OutcomeStep ==
    (run.pc = "tool" /\ run' # run)
    => \A outcome \in ToolOutcomes :
          run' = NextCall(settings, ToolFinished(StepStart(run), outcome))
          => /\ OutcomeNotices(run'.emitted) = 1
             /\ run'.emitted[1] = IF outcome \in {"error", "throw"}
                                  THEN "toolFailed" ELSE "toolDone"

\* C30: every executed call is announced before it runs and gets the one
\* outcome notice of its own result.
C30_NoticeOfOwnResult == []C30_StartedFirst /\ [][C30_OutcomeStep]_vars

\* a line that holds white space only
IsBlankLine(line) == \A k \in 1..Len(line) : IsWS(line[k])

\* number of white-space characters a line starts with
RECURSIVE IndentWidth(_)
IndentWidth(line) ==
    IF line = <<>> \/ ~IsWS(Head(line)) THEN 0 ELSE 1 + IndentWidth(Tail(line))

\* the line the claim expects for a replacement line placed under a line of the file
Reindented(fileLine, replaceLine) ==
    IF IsBlankLine(replaceLine) THEN replaceLine
    ELSE SubSeq(fileLine, 1, IndentWidth(fileLine))
            \o SubSeq(replaceLine, IndentWidth(replaceLine) + 1, Len(replaceLine))

\* the replacement lines as the claim expects them for the window starting at w
ReindentedBlock(lines, replaceLines, w) ==
    [k \in 1..Len(replaceLines) |-> Reindented(lines[w], replaceLines[k])]

\* the text from position from on starts with part
StartsWithAt(text, from, part) ==
    /\ from + Len(part) - 1 <= Len(text)
    /\ SubSeq(text, from, from + Len(part) - 1) = part

\* number of characters the lines before the window take in the result
LengthBefore(lines, w, lineEnding) ==
    IF w = 1 THEN 0 ELSE Len(Join(SubSeq(lines, 1, w - 1), lineEnding)) + Len(lineEnding)

\* C31: on the fuzzy path every non-blank replacement line is emitted as the
\* leading white space of the matched window's first line followed by the
\* replacement line without its own leading white space, and a blank replacement
\* line is emitted unchanged; the emitted lines stand, joined by the file's line
\* ending, where the window started.
C31_ReplacementReindented ==
    patchResult.via = "fuzzy"
    => LET lines == SplitLines(fileContent)
           w     == patchResult.index
           le    == lineEndingOf(fileContent)
       IN  StartsWithAt(patchResult.text, LengthBefore(lines, w, le) + 1,
                        Join(ReindentedBlock(lines, SplitLines(replaceBlock), w), le))

C31_Witness ==
    /\ patchPc = "applied"
    /\ patchResult.via = "fuzzy"
    /\ fileContent = <<" ", "a">>
    /\ searchBlock = <<"a", " ">>
    /\ replaceBlock = <<" ", "\n", "\t", "b">>
    /\ patchResult.text = <<" ", "\n", " ", "b", "\n">>

\* the window starting at i is scored and its whole-block score is at least pct
WindowAtLeast(lines, searchLines, i, pct) ==
    /\ WindowScore(lines, searchLines, i).den > 0
    /\ ScoreAtLeastPct(WindowScore(lines, searchLines, i), pct)

\* C32 (as claimed): when the search block does not occur verbatim and some window
\* of the file is at least 0.85 similar to it (whole block, trimmed lines), the
\* result is new content, and no window of the file scores higher than the
\* window that was replaced.
C32_PruningOnlyOptimises ==
    patchPc # "ready"
    => LET lines   == SplitLines(fileContent)
           sl      == SplitLines(searchBlock)
           windows == 1..(Len(lines) - Len(sl) + 1)
       IN  ( /\ ~Includes(fileStrOf(fileContent), fileStrOf(searchBlock))
             /\ \E i \in windows : WindowAtLeast(lines, sl, i, 85) )
           => /\ patchResult.kind = "content"
              /\ patchResult.via = "fuzzy"
              /\ \A j \in windows :
                    WindowScore(lines, sl, j).den > 0
                    => ~ScoreGT(WindowScore(lines, sl, j),
                                WindowScore(lines, sl, patchResult.index))

\* C33 (as claimed): on the fuzzy path the result is the file's lines before the
\* window, the re-indented replacement lines and the file's lines after the
\* window, joined by the file's line ending; its number of lines is file lines
\* minus search lines plus replacement lines, also for a window that ends at the
\* last line of the file.
C33_SpliceKeepsFrame ==
    patchResult.via = "fuzzy"
    => LET lines  == SplitLines(fileContent)
           sl     == SplitLines(searchBlock)
           rl     == SplitLines(replaceBlock)
           w      == patchResult.index
           le     == lineEndingOf(fileContent)
           before == SubSeq(lines, 1, w - 1)
           after  == SubSeq(lines, w + Len(sl), Len(lines))
       IN  /\ patchResult.text = Join(before \o ReindentedBlock(lines, rl, w) \o after, le)
           /\ Len(SplitLines(patchResult.text)) = Len(lines) - Len(sl) + Len(rl)

\* C33, the part that holds: the same for a window that ends before the last line
\* of the file.
C33_FrameBeforeLastLine ==
    (patchResult.via = "fuzzy"
        /\ patchResult.index + Len(SplitLines(searchBlock)) <= Len(SplitLines(fileContent)))
    => LET lines  == SplitLines(fileContent)
           sl     == SplitLines(searchBlock)
           rl     == SplitLines(replaceBlock)
           w      == patchResult.index
           le     == lineEndingOf(fileContent)
           before == SubSeq(lines, 1, w - 1)
           after  == SubSeq(lines, w + Len(sl), Len(lines))
       IN  patchResult.text = Join(before \o ReindentedBlock(lines, rl, w) \o after, le)

\* C34 (as claimed): an edit_file call on a readable file reports "search block
\* not found" only when the patcher returned none; whenever the patcher returns
\* content, the empty text included, that content is written to the file and the
\* result is a success.
C34_EditStep ==
    (ToolCalled /\ toolCall'.name = "edit_file" /\ currentRoot # NoRoot
        /\ toolCall'.touched \in DOMAIN disk.files)
    => LET fullPath == toolCall'.touched
           patched  == applySearchReplace(disk.files[fullPath], toolCall'.args.search,
                                          toolCall'.args.replace)
       IN  /\ toolCall'.result = Failure("Search block not found") => patched.kind = "none"
           /\ patched.kind = "content"
              => /\ toolCall'.result.kind = "success"
                 /\ disk'.files[fullPath] = patched.text

C34_NotFoundOnlyForNone == [][C34_EditStep]_vars

\* C34, the part that holds: content that is not the empty text is written and
\* reported as a success.
C34_NonEmptyStep ==
    (ToolCalled /\ toolCall'.name = "edit_file" /\ currentRoot # NoRoot
        /\ toolCall'.touched \in DOMAIN disk.files)
    => LET fullPath == toolCall'.touched
           patched  == applySearchReplace(disk.files[fullPath], toolCall'.args.search,
                                          toolCall'.args.replace)
       IN  (patched.kind = "content" /\ patched.text # <<>>)
           => /\ toolCall'.result.kind = "success"
              /\ disk'.files[fullPath] = patched.text

C34_NonEmptyContentWritten == [][C34_NonEmptyStep]_vars

\* C35 (as claimed): in ask mode (chat mode neither agent nor build) the tool
\* executor is never invoked, whatever tool calls the provider returns and
\* whatever the auto-approve setting is.
C35_AskNeverExecutesTools ==
    ~isAgentMode(settings) => (run.toolCalls = 0 /\ run.pc # "tool")

\* lines 730-766: the names of the seven tools of customTools
CatalogNames ==
    {"execute_command", "create_directory", "list_directory", "search_files", "write_file",
     "read_file", "edit_file"}

\* C36 (as claimed): a call of a tool whose name is not in the catalog returns the
\* error "tool not found" and leaves the file system as it was, whether or not a
\* session is connected.
C36_OutsideStep ==
    (ToolCalled /\ toolCall'.name \notin CatalogNames /\ currentRoot # NoRoot)
    => /\ toolCall'.result = Failure("Tool not found")
       /\ disk' = disk

C36_OutsideCatalogRejected == [][C36_OutsideStep]_vars

\* C36, the part that holds: without a session the call is rejected.
C36_RejectedStep ==
    (ToolCalled /\ toolCall'.name \notin CatalogNames /\ currentRoot # NoRoot
        /\ client = NoClient)
    => /\ toolCall'.result = Failure("Tool not found")
       /\ disk' = disk

C36_RejectedWithoutSession == [][C36_RejectedStep]_vars

(***************************************************************************)
(* Properties of the manager shared by two invocations (specification      *)
(* SpecShared).                                                            *)
(***************************************************************************)
\* a step in which invocation c calls a tool
CallerCalled(c) == callers'[c].called = callers[c].called + 1

\* C37 (as claimed): with two invocations for different roots in progress, every
\* tool call of an invocation resolves its path against the root this invocation
\* connected to, whatever the interleaving.
C37_OwnRootStep ==
    \A c \in Callers :
       CallerCalled(c)
       => /\ currentRoot = appRootOf(c)
          /\ toolCall'.touched = getFullPath(appRootOf(c), toolCall'.args.path)

C37_CallsUseOwnRoot == [][C37_OwnRootStep]_vars

\* every call of connect has returned
ConnectsCompleted == \A c \in Callers : callers[c].pc \in {"start", "ready"}

\* C38 (as claimed): at any time at most one session is open, also after a failed
\* attempt and with overlapping connect calls; when every connect call has
\* returned, a non-null session handle is an open session that was established
\* for the current root.
C38_AtMostOneSession ==
    /\ Cardinality(sessions.open) <= 1
    /\ (ConnectsCompleted /\ client # NoClient)
       => /\ client \in sessions.open
          /\ \E c \in Callers : callers[c].session = client /\ appRootOf(c) = currentRoot

\* C38, the part that holds: whenever the handle is set, the root is the root the
\* handle's session was established for.
C38_HandleMatchesRoot ==
    client # NoClient
    => \E c \in Callers : callers[c].session = client /\ appRootOf(c) = currentRoot

\* the API host of the vendor a provider id names
VendorHost(id) ==
    CASE id = "openrouter" -> "openrouter.ai"
      [] id = "google"     -> "generativelanguage.googleapis.com"
      [] id = "openai"     -> "api.openai.com"
      [] id = "anthropic"  -> "api.anthropic.com"
      [] id = "ollama"     -> "127.0.0.1:11434"
      [] OTHER             -> "unknown"

\* the candidate of the request in flight
CurrentCandidate == providerQueue[run.currentProviderIndex]

\* C39 (as claimed): the request that carries a candidate's API key goes to the
\* endpoint of that candidate's own provider and to no other vendor.
C39_KeyGoesToOwnVendor ==
    run.pc = "fetch" => requestHost(CurrentCandidate.id) = VendorHost(CurrentCandidate.id)

\* C39, the part that holds: for the candidates openrouter, google, openai and
\* ollama the request goes to the provider's own endpoint.
C39_OwnVendorExceptAnthropic ==
    (run.pc = "fetch" /\ CurrentCandidate.id \in KnownProviders \ {"anthropic"})
    => requestHost(CurrentCandidate.id) = VendorHost(CurrentCandidate.id)

\* a step in which the chat:stream request completes
StreamCompletes ==
    handler.pc \in {"setup", "streaming"} /\ handler'.pc \in {"ended", "failed"}

\* C40 (as claimed): when a chat:stream request completes, exactly one terminal
\* event (chat:response:end or chat:response:error) has been sent for it, also
\* when chat:cancel arrived while it was running, and its abort controller is no
\* longer registered in the active-stream table.
C40_CompleteStep ==
    StreamCompletes
    => /\ handler'.endEvents + handler'.errorEvents = 1
       /\ activeStreams' # "A"

C40_OneTerminalEvent == [][C40_CompleteStep]_vars

\* C40, the part that holds: the chat:stream handler itself sends exactly one
\* terminal event, the others are those of the chat:cancel handler; a request that
\* fails leaves no controller of the chat registered.
C40_HandlerStep ==
    StreamCompletes
    => /\ handler'.endEvents + handler'.errorEvents = handler'.cancels + 1
       /\ handler'.pc = "failed" => activeStreams' = "none"

C40_HandlerSendsOne == [][C40_HandlerStep]_vars

====
